---------------------------- MODULE Spec2Model ----------------------------
(***************************************************************************)
(* Benchmark orchestration and result normalisation of the repository:     *)
(*   src/run_benchmark.py               ("main" driver)                    *)
(*   src/run_benchmark_commandbuffer.py ("cb" driver)                      *)
(*   src/run_benchmark_linux.py         ("linux" driver)                   *)
(*                                                                         *)
(* A child's output is a sequence of lines.  A line is                     *)
(*     <label><sp1 spaces>:<sp2 spaces><tok><sp3 spaces><unit>             *)
(* with tok a sequence of characters.  The regular expressions of the      *)
(* parsers are modelled by what they accept on such lines.  Metric values  *)
(* are fixed-point numbers, Scale units to one.                            *)
(***************************************************************************)
EXTENDS Integers, Sequences, FiniteSets, TLC

VARIABLES
    driver,          \* which script runs: "main", "cb" or "linux"
    config,          \* linux: the CONFIG the script was started with
    missing,         \* paths that do not exist on disk
    scenes,          \* linux: the .xml files of the source scene directory
    phase,           \* the section of the driver being executed
    i,               \* index of the outer loop (engine / config)
    k,               \* cb: index into CUDA_LAUNCH_QUEUE_SCALES
    j,               \* index of the inner loop (model / world count / file)
    child,           \* "none", "running", "hung" or "nolaunch"
    cur,             \* locals of the iteration whose process was launched
    environ,         \* os.environ["CUDA_SCALE_LAUNCH_QUEUES"], or "unset"
    results,         \* results / summary_results: the rows, in append order
    all_fieldnames,  \* main, cb: the set of column names seen so far
    report,          \* the report artifact, once written
    hist,            \* history: one entry per call of subprocess.run
    faults           \* history: number of launches that did not go well

vars == <<driver, config, missing, scenes, phase, i, k, j, child, cur,
          environ, results, all_fieldnames, report, hist, faults>>

---------------------------------------------------------------------------
(* Bounds of the model.                                                    *)

\* how many entries of MODEL_SCALING_LIST a sweep iterates
NModels == 1
\* how many entries of NWORLD_SCALING_LIST a sweep iterates
NWorlds == 1
\* how many launches of one run may end other than with the nominal output
MaxFaults == 1

\* fixed-point: a value v stands for v / Scale
Scale == 10 ^ 6

---------------------------------------------------------------------------
(* Values of a row's cells.                                                *)

Num(v) == [num |-> v]
Str(s) == [str |-> s]
Txt(t) == [text |-> t]
None   == [none |-> TRUE]

\* dict.update: the entries of b override those of a
Update(a, b) == [x \in (DOMAIN a) \cup (DOMAIN b) |->
                    IF x \in DOMAIN b THEN b[x] ELSE a[x]]

EmptyDict == [x \in {} |-> None]

---------------------------------------------------------------------------
(* Text.                                                                   *)

L(label, sp1, sp2, tok, sp3, unit) ==
    [label |-> label, sp1 |-> sp1, sp2 |-> sp2, tok |-> tok,
     sp3 |-> sp3, unit |-> unit]

\* a line without a number, such as "segfault"
Junk(s) == L(s, 0, 0, <<>>, 0, "")

Digits == {"0", "1", "2", "3", "4", "5", "6", "7", "8", "9"}

DigitVal(c) ==
    CASE c = "0" -> 0 [] c = "1" -> 1 [] c = "2" -> 2 [] c = "3" -> 3
      [] c = "4" -> 4 [] c = "5" -> 5 [] c = "6" -> 6 [] c = "7" -> 7
      [] c = "8" -> 8 [] c = "9" -> 9

\* the longest prefix of tok made of characters of class: a greedy [..]+
RECURSIVE Greedy(_, _)
Greedy(tok, class) ==
    IF tok = <<>> \/ Head(tok) \notin class THEN <<>>
    ELSE <<Head(tok)>> \o Greedy(Tail(tok), class)

\* A pattern  <label><sp1>:<sp2>([class]+)(<sp3><unit>)  where each sp is
\* "*" for \s*, "+" for \s+ or "" for nothing; units = {} when the pattern
\* ends with the group.
Pat(label, sp1, sp2, class, sp3, units) ==
    [label |-> label, sp1 |-> sp1, sp2 |-> sp2, class |-> class,
     sp3 |-> sp3, units |-> units]

\* n blanks against \s*, \s+ or nothing
SpOk(sp, n) == CASE sp = "*" -> TRUE [] sp = "+" -> n >= 1 [] OTHER -> n = 0

\* does the pattern match on this line; the group is Greedy(line.tok, class)
Matches(pat, line) ==
    /\ line.label = pat.label
    /\ SpOk(pat.sp1, line.sp1)
    /\ SpOk(pat.sp2, line.sp2)
    /\ Greedy(line.tok, pat.class) # <<>>
    /\ pat.units # {} =>
          /\ Greedy(line.tok, pat.class) = line.tok
          /\ SpOk(pat.sp3, line.sp3)
          /\ line.unit \in pat.units

\* the least element of a set of line numbers, 0 for the empty set
FirstOf(hits) ==
    IF hits = {} THEN 0 ELSE CHOOSE n \in hits : \A m \in hits : n <= m

\* re.search: the index of the first line the pattern matches, 0 for no match
Search(pat, text) == FirstOf({n \in DOMAIN text : Matches(pat, text[n])})

\* match.group(1)
Group1(pat, line) == Greedy(line.tok, pat.class)

RECURSIVE CountDots(_)
CountDots(s) ==
    IF s = <<>> THEN 0
    ELSE (IF Head(s) = "." THEN 1 ELSE 0) + CountDots(Tail(s))

RECURSIVE NatOf(_)
NatOf(s) == IF s = <<>> THEN 0
            ELSE NatOf(SubSeq(s, 1, Len(s) - 1)) * 10 + DigitVal(s[Len(s)])

\* float(s) raises ValueError unless s is digits with at most one dot
FloatOk(s) ==
    /\ \A n \in DOMAIN s : s[n] \in Digits \cup {"."}
    /\ CountDots(s) <= 1
    /\ \E n \in DOMAIN s : s[n] \in Digits

\* float(s), in fixed point
Float(s) ==
    LET int  == Greedy(s, Digits)
        frac == IF Len(int) < Len(s) THEN SubSeq(s, Len(int) + 2, Len(s))
                ELSE <<>>
    IN  NatOf(int) * Scale + (NatOf(frac) * Scale) \div (10 ^ Len(frac))

\* str.replace(",", "")
RECURSIVE StripCommas(_)
StripCommas(s) ==
    IF s = <<>> THEN <<>>
    ELSE (IF Head(s) = "," THEN <<>> ELSE <<Head(s)>>) \o StripCommas(Tail(s))


---------------------------------------------------------------------------
(* The parsers.  Unit names: "mu-s" is GREEK SMALL LETTER MU + s (the      *)
(* alternative written in the patterns of main and cb), "micro-s" is       *)
(* MICRO SIGN + s (the patterns of linux), "?s" a question mark + s.       *)

DD  == Digits \cup {"."}          \* [\d.]
DDC == Digits \cup {".", ","}     \* [\d.,]

Rule(key, pat, strip, div) ==
    [key |-> key, pat |-> pat, strip |-> strip, div |-> div]

\* the string handed to float() when the group is g
Captured(rule, g) == IF rule.strip THEN StripCommas(g) ELSE g

\* float(<captured>) for a rule, or that it raised ValueError
Converted(rule, c) ==
    IF FloatOk(c)
    THEN [hit |-> TRUE, ok |-> TRUE, val |-> Num(Float(c) \div rule.div)]
    ELSE [hit |-> TRUE, ok |-> FALSE, val |-> None]

\* one pattern on the text: whether it matched, and what float() made of it
Scan(rule, at, text) ==
    IF at = 0 THEN [hit |-> FALSE, ok |-> TRUE, val |-> None]
    ELSE Converted(rule, Captured(rule, Group1(rule.pat, text[at])))

\* the dictionary the loop over the patterns leaves; a later pattern with the
\* same key overwrites an earlier one
Collect(rules, scans) ==
    [raised |-> \E x \in DOMAIN scans : scans[x].hit /\ ~scans[x].ok,
     data   |-> [key \in {rules[x].key : x \in {y \in DOMAIN scans : scans[y].hit}} |->
                   scans[CHOOSE x \in DOMAIN scans :
                           /\ scans[x].hit /\ rules[x].key = key
                           /\ \A y \in DOMAIN scans :
                                scans[y].hit /\ rules[y].key = key => y <= x].val]]

\* "for name, pattern in ...: match = re.search(...); if match: data[..] = float(..)"
\* raised: some float() raised ValueError, which leaves the parser
ApplyRules(rules, text) ==
    Collect(rules, [x \in DOMAIN rules |->
                      Scan(rules[x], Search(rules[x].pat, text), text)])

\* simple_metrics of parse_exe_output
ExeSimpleMetrics == <<
    Rule("SimulationTime_s", Pat("Simulation time", "*", "*", DD, "*", {"s"}), FALSE, 1),
    Rule("StepsPerSecond", Pat("Steps per second", "*", "*", DD, "*", {}), FALSE, 1),
    Rule("RealtimeFactor", Pat("Realtime factor", "*", "*", DD, "*", {"x"}), FALSE, 1),
    Rule("TimePerStep_us",
         Pat("Time per step", "*", "*", DD, "*", {"?s", "mu-s", "us"}), FALSE, 1),
    Rule("CG_iters_per_step", Pat("CG iters / step", "*", "*", DD, "*", {}), FALSE, 1),
    Rule("Contacts_per_step", Pat("Contacts / step", "*", "*", DD, "*", {}), FALSE, 1),
    Rule("Constraints_per_step",
         Pat("Constraints / step", "*", "*", DD, "*", {}), FALSE, 1),
    Rule("DOF", Pat("Degrees of freedom", "*", "*", DD, "*", {}), FALSE, 1) >>

\* profiler_keys of parse_exe_output with the column f"Profiler_{key.replace(' ', '_')}_us"
ExeProfilerKeys == <<
    <<"step", "Profiler_step_us">>, <<"forward", "Profiler_forward_us">>,
    <<"position", "Profiler_position_us">>,
    <<"velocity", "Profiler_velocity_us">>,
    <<"actuation", "Profiler_actuation_us">>,
    <<"constraint", "Profiler_constraint_us">>,
    <<"advance", "Profiler_advance_us">>, <<"other", "Profiler_other_us">>,
    <<"position total", "Profiler_position_total_us">>,
    <<"kinematics", "Profiler_kinematics_us">>,
    <<"inertia", "Profiler_inertia_us">>,
    <<"collision", "Profiler_collision_us">>,
    <<"broadphase", "Profiler_broadphase_us">>,
    <<"narrowphase", "Profiler_narrowphase_us">>,
    <<"make", "Profiler_make_us">>, <<"project", "Profiler_project_us">> >>

\* ^\s*<key>\s*:\s*([\d.]+)\s*\(
ExeProfilerRules ==
    [x \in DOMAIN ExeProfilerKeys |->
        Rule(ExeProfilerKeys[x][2],
             Pat(ExeProfilerKeys[x][1], "*", "*", DD, "*", {"("}), FALSE, 1)]

\* the dictionary after the simple metrics (s) and the profiler part (p)
Both(s, p) == [raised |-> s.raised \/ p.raised, data |-> Update(s.data, p.data)]

\* parse_exe_output without its profiler part
parse_exe_scalars(output_text) == ApplyRules(ExeSimpleMetrics, output_text)

parse_exe_output(output_text) ==
    Both(ApplyRules(ExeSimpleMetrics, output_text),
         ApplyRules(ExeProfilerRules, output_text))

\* simple_metrics of parse_warp_output with the nanoseconds stored as read,
\* under their own name
WarpSimpleMetricsNs == <<
    Rule("SimulationTime_s",
         Pat("Total simulation time", "*", "*", DD, "*", {"s"}), TRUE, 1),
    Rule("StepsPerSecond",
         Pat("Total steps per second", "*", "*", DDC, "*", {}), TRUE, 1),
    Rule("RealtimeFactor",
         Pat("Total realtime factor", "*", "*", DDC, "*", {"x"}), TRUE, 1),
    Rule("TimePerStep_ns",
         Pat("Total time per step", "*", "*", DD, "*", {"ns"}), TRUE, 1) >>

\* simple_metrics of parse_warp_output; TimePerStep_ns is stored as
\* TimePerStep_us = value / 1000.0
WarpSimpleMetrics == <<
    Rule("SimulationTime_s",
         Pat("Total simulation time", "*", "*", DD, "*", {"s"}), TRUE, 1),
    Rule("StepsPerSecond",
         Pat("Total steps per second", "*", "*", DDC, "*", {}), TRUE, 1),
    Rule("RealtimeFactor",
         Pat("Total realtime factor", "*", "*", DDC, "*", {"x"}), TRUE, 1),
    Rule("TimePerStep_us",
         Pat("Total time per step", "*", "*", DD, "*", {"ns"}), TRUE, 1000) >>

\* profiler_map of parse_warp_output
WarpProfilerMap == <<
    <<"step", "Profiler_step_us">>, <<"forward", "Profiler_forward_us">>,
    <<"fwd_position", "Profiler_position_us">>,
    <<"fwd_velocity", "Profiler_velocity_us">>,
    <<"fwd_actuation", "Profiler_actuation_us">>,
    <<"solve", "Profiler_constraint_us">>,
    <<"euler", "Profiler_advance_us">>,
    <<"collision", "Profiler_collision_us">>,
    <<"nxn_broadphase", "Profiler_broadphase_us">>,
    <<"make_constraint", "Profiler_make_us">>,
    <<"primitive_narrowphase", "Profiler_narrowphase_us">> >>

\* ^\s*<warp_key>\s*:\s*([\d.]+)  and  float(..) / 1000.0
WarpProfilerRules ==
    [x \in DOMAIN WarpProfilerMap |->
        Rule(WarpProfilerMap[x][2],
             Pat(WarpProfilerMap[x][1], "*", "*", DD, "*", {}), FALSE, 1000)]

\* re.search(r"Event trace:", output_text): index of the marker line, or 0
TraceMatch(text) ==
    FirstOf({n \in DOMAIN text :
                text[n].label = "Event trace" /\ text[n].sp1 = 0})

\* the profiler keys looked for in the whole output, marker or not
WarpProfilerWholeText(output_text, t) ==
    ApplyRules(WarpProfilerRules, output_text)

\* "if trace_match: profiler_text = output_text[trace_match.end():] ..."
WarpProfiler(output_text, t) ==
    IF t # 0
    THEN ApplyRules(WarpProfilerRules,
                    SubSeq(output_text, t + 1, Len(output_text)))
    ELSE [raised |-> FALSE, data |-> EmptyDict]

parse_warp_output(output_text) ==
    Both(ApplyRules(WarpSimpleMetrics, output_text),
         WarpProfiler(output_text, TraceMatch(output_text)))


---------------------------------------------------------------------------
(* Configuration of main and cb (identical in both scripts).               *)

DEFAULT_STEPS == 1000
DEFAULT_WORLDS == 1

\* a path is <<directory, file>>; a directory is <<directory, "">>
MujocoExe == <<"mujoco/cmake-build-release/bin", "testspeed.exe">>
CudaExe   == <<"cuda_mujoco/cmake-build-release/bin", "testspeed.exe">>

EXE_TEST_CONFIGS == <<
    [engine_name |-> "mujoco", model_type |-> "dense",
     exe_path |-> MujocoExe, model_base_path |-> "humanoid"],
    [engine_name |-> "mujoco", model_type |-> "sparse",
     exe_path |-> MujocoExe, model_base_path |-> "humanoid/sparse"],
    [engine_name |-> "cuda_mujoco", model_type |-> "default",
     exe_path |-> CudaExe, model_base_path |-> "humanoid"] >>

\* WARP_ENGINES["mujoco_warp"]
WarpRoot   == <<"mujoco_warp", "">>
WarpScript == <<"mujoco_warp", "env/Scripts/Activate.ps1">>
WARP_ENGINES == << [engine_name |-> "mujoco_warp", root_path |-> WarpRoot,
                    env_script |-> WarpScript] >>

MODEL_SCALING_LIST == <<
    <<1, "humanoid.xml">>, <<8, "8_humanoids.xml">>,
    <<22, "22_humanoids.xml">>, <<50, "50_humanoids.xml">>,
    <<100, "100_humanoids.xml">>, <<200, "200_humanoids.xml">> >>

NWORLD_SCALING_LIST == <<1, 4, 16, 64, 256>>

NWORLD_WARP_BASE_MODEL == "humanoid.xml"
CUDA_NWORLD_MODEL_BASE_PATH == "humanoid/n_humanoid"

CUDA_LAUNCH_QUEUE_SCALES == <<"1x", "4x">>

\* the part of the lists a sweep of the model iterates
ModelList == SubSeq(MODEL_SCALING_LIST, 1, NModels)
WorldList == SubSeq(NWORLD_SCALING_LIST, 1, NWorlds)

\* "humanoid.xml" if count == 1 else f"{count}_humanoid.xml"
NWorldModelFile(count) ==
    CASE count = 1   -> "humanoid.xml"
      [] count = 4   -> "4_humanoid.xml"
      [] count = 16  -> "16_humanoid.xml"
      [] count = 64  -> "64_humanoid.xml"
      [] count = 256 -> "256_humanoid.xml"

\* os.path.exists(path) / os.path.isdir(path)
PathExists(path) == path \notin missing

\* os.path.exists(model_path) taken to be true without looking
ModelAssumedPresent(base, file) == TRUE

\* os.path.exists(model_path) of a sweep over model files
ModelPresent(base, file) == PathExists(<<base, file>>)

IntV(v) == [int |-> v]

\* the context fields the loops write onto a row
Context(category, engine, model_type, humanoids, worlds, model_file) ==
    [TestCategory |-> Str(category), Engine |-> Str(engine),
     ModelType |-> Str(model_type), Humanoids |-> IntV(humanoids),
     Worlds |-> IntV(worlds), ModelFile |-> Str(model_file)]

IdentityKeys ==
    {"TestCategory", "Engine", "ModelType", "Humanoids", "Worlds", "ModelFile"}

---------------------------------------------------------------------------
(* What a child process can do.                                            *)

DialectOf(parser_type) == IF parser_type = "warp" THEN "warp" ELSE "exe"

\* the output of a run that went well, per dialect
NominalText(dialect) ==
    CASE dialect = "exe" ->
           << L("Simulation time", 6, 1, <<"1", "2", ".", "3">>, 1, "s"),
              L("Time per step", 8, 1, <<"4", "5", ".", "6">>, 1, "?s"),
              L("step", 1, 1, <<"4", "5", ".", "1">>, 1, "(") >>
      [] dialect = "warp" ->
           << L("Total simulation time", 0, 1, <<"0", ".", "5">>, 1, "s"),
              L("Total time per step", 0, 1,
                <<"1", "2", "0", "0", ".", "0">>, 1, "ns"),
              L("Event trace", 0, 0, <<>>, 0, ""),
              L("step", 0, 1, <<"9", "0", "0">>, 0, "") >>
      [] dialect = "mujoco" ->
           << L("Simulation time", 6, 1, <<"1", "2", ".", "3">>, 1, "s"),
              L("Time per step", 8, 1, <<"4", "5", ".", "6">>, 1, "micro-s") >>
      [] dialect = "cuda_mujoco" ->
           << L("Total wall time", 6, 1, <<"1", "2", ".", "3">>, 1, "s"),
              L("Time per step", 8, 1, <<"4", "5", ".", "6">>, 1, "micro-s") >>
      [] dialect = "mjx" ->
           << L("Total simulation time", 0, 1, <<"0", ".", "5">>, 1, "s"),
              L("Total time per step", 0, 1, <<"7", ".", "5">>, 1, "micro-s") >>
      [] dialect = "mujoco_warp" ->
           << L("Total simulation time", 0, 1, <<"0", ".", "5">>, 1, "s"),
              L("Total time per step", 0, 1,
                <<"1", "2", "0", "0", ".", "0">>, 1, "ns") >>
      [] OTHER -> << >>

\* output with no label any dialect knows
UsageText == << Junk("usage: testspeed modelfile") >>

\* output where only phase/profiler lines are recognisable
ProfilerOnlyText(dialect) ==
    IF dialect = "warp"
    THEN << L("Event trace", 0, 0, <<>>, 0, ""),
            L("step", 0, 1, <<"9", "0", "0">>, 0, "") >>
    ELSE << L("step", 1, 1, <<"4", "5", ".", "1">>, 1, "(") >>

\* output where a label is followed by a token that is not a number
BadNumberText(dialect) ==
    CASE dialect \in {"exe", "mujoco", "cuda_mujoco"} ->
           << L("Steps per second", 5, 1, <<"1", ".", "2", ".", "3">>, 0, "") >>
      [] OTHER ->
           << L("Total steps per second", 0, 1, <<".">>, 0, "") >>

SegfaultText == << Junk("segfault") >>

Exit(rc, stdout, stderr) ==
    [kind |-> "exit", rc |-> rc, stdout |-> stdout, stderr |-> stderr]

NominalExit(dialect) == Exit(0, NominalText(dialect), << >>)

\* the ways a process that ends by itself can end other than nominally
FaultyExits(dialect) ==
    { Exit(1, NominalText(dialect), SegfaultText),
      Exit(0, UsageText, << >>),
      Exit(0, ProfilerOnlyText(dialect), << >>),
      Exit(0, BadNumberText(dialect), << >>) }

\* subprocess.TimeoutExpired
TimedOut == [kind |-> "timeout"]
\* any other exception of subprocess.run, e.g. the executable cannot be started
OsError == [kind |-> "oserror", msg |-> "[Errno 2] No such file or directory"]
Pending == [kind |-> "pending"]


---------------------------------------------------------------------------
(* run_command_and_parse, as a function of what the child did.             *)

Parse(parser_type, stdout) ==
    IF parser_type = "warp" THEN parse_warp_output(stdout)
    ELSE parse_exe_output(stdout)

\* the try block keeping what the parser had collected when float() raised
ParsedKeepingPartial(p, stdout) ==
    IF p.raised
    THEN Update(p.data, [error |-> Str("could not convert string to float")])
    ELSE IF DOMAIN p.data = {}
    THEN [error |-> Str("Parsing_Failed"), stdout |-> Txt(stdout)]
    ELSE p.data

\* the try block after the return code check: p is what the parser did
Parsed(p, stdout) ==
    IF p.raised THEN [error |-> Str("could not convert string to float")]
    ELSE IF DOMAIN p.data = {}
    THEN [error |-> Str("Parsing_Failed"), stdout |-> Txt(stdout)]
    ELSE p.data

run_command_and_parse(outcome, parser_type) ==
    CASE outcome.kind = "timeout" -> [error |-> Str("Timeout")]
      [] outcome.kind = "oserror" -> [error |-> Str(outcome.msg)]
      [] outcome.kind = "exit" ->
           IF outcome.rc # 0
           THEN [error |-> Str("ReturnCode_NonZero"),
                 stderr |-> Txt(outcome.stderr)]
           ELSE Parsed(Parse(parser_type, outcome.stdout), outcome.stdout)

\* the context written only onto a row that carries metrics
AnnotateIfParsed(parsed_data, ctx) ==
    IF "error" \in DOMAIN parsed_data THEN parsed_data
    ELSE Update(parsed_data, ctx)

\* parsed_data["TestCategory"] = ... ; ... ; parsed_data["ModelFile"] = ...
Annotate(parsed_data, ctx) == Update(parsed_data, ctx)

\* a row appended only when the launch succeeded
AppendRowIfOk(rows, row) ==
    IF "error" \in DOMAIN row THEN rows ELSE Append(rows, row)

\* results.append(parsed_data)
AppendRow(rows, row) == Append(rows, row)

\* the keys of a row registered only when the row is not a failure row
FieldnamesUpdateIfOk(fields, row) ==
    IF "error" \in DOMAIN row THEN fields ELSE fields \cup DOMAIN row

\* all_fieldnames = set(parsed_data.keys())
FieldnamesAssign(fields, row) == DOMAIN row

\* all_fieldnames.update(parsed_data.keys())
FieldnamesUpdate(fields, row) == fields \cup DOMAIN row

---------------------------------------------------------------------------
(* Steps shared by the loops of main and cb.                               *)

NoCur == [ctx |-> EmptyDict, parser_type |-> "none"]
NoReport == [written |-> FALSE, header |-> << >>, rows |-> << >>]

\* subprocess.run is entered: the process starts and will end by itself, or
\* starts and never ends by itself, or cannot be started
Launch(ctx, parser_type) ==
    /\ \E c \in {"running"} \cup
                (IF faults < MaxFaults THEN {"hung", "nolaunch"} ELSE {}) :
          /\ child' = c
          /\ faults' = IF c = "running" THEN faults ELSE faults + 1
    /\ cur' = [ctx |-> ctx, parser_type |-> parser_type]
    /\ hist' = Append(hist, [ctx |-> ctx, parser_type |-> parser_type,
                             env |-> environ, out |-> Pending])

\* results.append(parsed_data); all_fieldnames.update(parsed_data.keys())
Store(row) ==
    /\ results' = AppendRow(results, row)
    /\ all_fieldnames' = FieldnamesUpdate(all_fieldnames, row)

\* the call returns and the row is recorded while the process is left alive:
\* what Popen without wait() or kill() would do
RecordWithoutReap(outcome) ==
    /\ Store(Annotate(run_command_and_parse(outcome, cur.parser_type),
                      cur.ctx))
    /\ hist' = hist
    /\ child' = "none"
    /\ cur' = NoCur
    /\ j' = j + 1

\* the call of run_command_and_parse returns and the row is recorded
Record(outcome) ==
    /\ Store(Annotate(run_command_and_parse(outcome, cur.parser_type),
                      cur.ctx))
    /\ hist' = [hist EXCEPT ![Len(hist)].out = outcome]
    /\ child' = "none"
    /\ cur' = NoCur
    /\ j' = j + 1

\* subprocess.run returns or raises at once
ProcessReturns ==
    /\ driver \in {"main", "cb"}
    /\ child \in {"running", "nolaunch"}
    /\ \/ /\ child = "nolaunch"
          /\ Record(OsError)
          /\ UNCHANGED faults
       \/ /\ child = "running"
          /\ Record(NominalExit(DialectOf(cur.parser_type)))
          /\ UNCHANGED faults
       \/ /\ child = "running"
          /\ faults < MaxFaults
          /\ \E o \in FaultyExits(DialectOf(cur.parser_type)) : Record(o)
          /\ faults' = faults + 1
    /\ UNCHANGED <<driver, config, missing, scenes, phase, i, k, environ,
                   report>>

\* timeout=TIMEOUT_SECONDS: the process is killed, TimeoutExpired is raised
TimeoutExpires ==
    /\ driver \in {"main", "cb"}
    /\ child = "hung"
    /\ Record(TimedOut)
    /\ UNCHANGED <<driver, config, missing, scenes, phase, i, k, environ,
                   report, faults>>

\* leave a loop for the next section
Goto(next_phase) ==
    /\ phase' = next_phase
    /\ i' = 1
    /\ j' = 0

Idle == UNCHANGED <<child, cur, hist, faults, results, all_fieldnames>>

---------------------------------------------------------------------------
(* run_benchmark.py: main()                                                *)

\* loop 1: for config in EXE_TEST_CONFIGS / for ... in MODEL_SCALING_LIST
MainExeModelScaling ==
    /\ driver = "main" /\ phase = "exeMS" /\ child = "none"
    /\ \/ /\ i > Len(EXE_TEST_CONFIGS)
          /\ Goto("warpMS")
          /\ Idle
       \/ /\ i <= Len(EXE_TEST_CONFIGS) /\ j = 0
          /\ IF PathExists(EXE_TEST_CONFIGS[i].exe_path)
             THEN j' = 1 /\ i' = i
             ELSE j' = 0 /\ i' = i + 1
          /\ UNCHANGED phase
          /\ Idle
       \/ /\ i <= Len(EXE_TEST_CONFIGS) /\ j > Len(ModelList)
          /\ i' = i + 1 /\ j' = 0
          /\ UNCHANGED phase
          /\ Idle
       \/ /\ i <= Len(EXE_TEST_CONFIGS) /\ j \in DOMAIN ModelList
          /\ ~ModelPresent(EXE_TEST_CONFIGS[i].model_base_path, ModelList[j][2])
          /\ j' = j + 1
          /\ UNCHANGED <<phase, i>>
          /\ Idle
       \/ /\ i <= Len(EXE_TEST_CONFIGS) /\ j \in DOMAIN ModelList
          /\ ModelPresent(EXE_TEST_CONFIGS[i].model_base_path, ModelList[j][2])
          /\ Launch(Context("ModelScaling", EXE_TEST_CONFIGS[i].engine_name,
                            EXE_TEST_CONFIGS[i].model_type, ModelList[j][1],
                            1, ModelList[j][2]), "exe")
          /\ UNCHANGED <<phase, i, j, results, all_fieldnames>>
    /\ UNCHANGED <<driver, config, missing, scenes, k, environ, report>>

\* the pre-flight check of a warp engine without the look at the script
WarpRootOnly(w) == PathExists(w.root_path)

\* the pre-flight check of a warp engine: root directory and activation script
WarpPreflight(w) == PathExists(w.root_path) /\ PathExists(w.env_script)

\* loop 2: for engine_name, config in WARP_ENGINES.items()
MainWarpModelScaling ==
    /\ driver = "main" /\ phase = "warpMS" /\ child = "none"
    /\ \/ /\ i > Len(WARP_ENGINES)
          /\ Goto("warpWS")
          /\ Idle
       \/ /\ i <= Len(WARP_ENGINES) /\ j = 0
          /\ IF WarpPreflight(WARP_ENGINES[i])
             THEN j' = 1 /\ i' = i
             ELSE j' = 0 /\ i' = i + 1
          /\ UNCHANGED phase
          /\ Idle
       \/ /\ i <= Len(WARP_ENGINES) /\ j > Len(ModelList)
          /\ i' = i + 1 /\ j' = 0
          /\ UNCHANGED phase
          /\ Idle
       \/ /\ i <= Len(WARP_ENGINES) /\ j \in DOMAIN ModelList
          /\ Launch(Context("ModelScaling", WARP_ENGINES[i].engine_name,
                            "default", ModelList[j][1], DEFAULT_WORLDS,
                            ModelList[j][2]), "warp")
          /\ UNCHANGED <<phase, i, j, results, all_fieldnames>>
    /\ UNCHANGED <<driver, config, missing, scenes, k, environ, report>>

\* loop 3: if "mujoco_warp" in WARP_ENGINES: for nworld_count in NWORLD_SCALING_LIST
MainWarpWorldScaling ==
    /\ driver = "main" /\ phase = "warpWS" /\ child = "none"
    /\ \/ /\ j = 0
          /\ IF WarpPreflight(WARP_ENGINES[1])
             THEN j' = 1 /\ UNCHANGED <<phase, i>>
             ELSE Goto("cudaWS")
          /\ Idle
       \/ /\ j > Len(WorldList)
          /\ Goto("cudaWS")
          /\ Idle
       \/ /\ j \in DOMAIN WorldList
          /\ Launch(Context("WorldScaling", "mujoco_warp", "nworld_scaling",
                            1, WorldList[j], NWORLD_WARP_BASE_MODEL), "warp")
          /\ UNCHANGED <<phase, i, j, results, all_fieldnames>>
    /\ UNCHANGED <<driver, config, missing, scenes, k, environ, report>>

\* cuda_config: the first entry of EXE_TEST_CONFIGS named cuda_mujoco
CudaConfig ==
    EXE_TEST_CONFIGS[CHOOSE x \in DOMAIN EXE_TEST_CONFIGS :
        /\ EXE_TEST_CONFIGS[x].engine_name = "cuda_mujoco"
        /\ \A y \in DOMAIN EXE_TEST_CONFIGS :
              EXE_TEST_CONFIGS[y].engine_name = "cuda_mujoco" => x <= y]

\* loop 4: if cuda_config: for count in NWORLD_SCALING_LIST
MainCudaWorldScaling ==
    /\ driver = "main" /\ phase = "cudaWS" /\ child = "none"
    /\ \/ /\ j = 0
          /\ IF /\ PathExists(CudaConfig.exe_path)
                /\ PathExists(<<CUDA_NWORLD_MODEL_BASE_PATH, "">>)
             THEN j' = 1 /\ UNCHANGED <<phase, i>>
             ELSE Goto("write")
          /\ Idle
       \/ /\ j > Len(WorldList)
          /\ Goto("write")
          /\ Idle
       \/ /\ j \in DOMAIN WorldList
          /\ ~ModelPresent(CUDA_NWORLD_MODEL_BASE_PATH,
                           NWorldModelFile(WorldList[j]))
          /\ j' = j + 1
          /\ UNCHANGED <<phase, i>>
          /\ Idle
       \/ /\ j \in DOMAIN WorldList
          /\ ModelPresent(CUDA_NWORLD_MODEL_BASE_PATH,
                          NWorldModelFile(WorldList[j]))
          /\ Launch(Context("WorldScaling", "cuda_mujoco", "nworld_equivalent",
                            WorldList[j], WorldList[j],
                            NWorldModelFile(WorldList[j])), "exe")
          /\ UNCHANGED <<phase, i, j, results, all_fieldnames>>
    /\ UNCHANGED <<driver, config, missing, scenes, k, environ, report>>

\* every column name a row of main or cb can carry, in the order of sorted()
KeyOrder == <<
    "CG_iters_per_step", "Constraints_per_step", "Contacts_per_step",
    "CudaLaunchQueueScale", "DOF", "Engine", "Error", "Humanoids",
    "ModelFile", "ModelType", "Profiler_actuation_us",
    "Profiler_advance_us", "Profiler_broadphase_us",
    "Profiler_collision_us", "Profiler_constraint_us",
    "Profiler_forward_us", "Profiler_inertia_us",
    "Profiler_kinematics_us", "Profiler_make_us",
    "Profiler_narrowphase_us", "Profiler_other_us",
    "Profiler_position_total_us", "Profiler_position_us",
    "Profiler_project_us", "Profiler_step_us", "Profiler_velocity_us",
    "RealtimeFactor", "SimulationTime_s", "StepsPerSecond",
    "TestCategory", "TimePerStep_us", "Worlds", "error", "stderr",
    "stdout" >>

\* sorted(set of column names)
Sorted(set) == SelectSeq(KeyOrder, LAMBDA x : x \in set)

SeqToSet(q) == {q[x] : x \in DOMAIN q}

\* ordered_fields + sorted(all_fieldnames), the filter left out
FinalFieldnamesUnfiltered(ordered_fields, fieldnames) ==
    ordered_fields \o Sorted(fieldnames)

\* ordered_fields + sorted([f for f in all_fieldnames if f not in ordered_fields])
FinalFieldnames(ordered_fields, fieldnames) ==
    ordered_fields \o Sorted(fieldnames \ SeqToSet(ordered_fields))

\* csv.DictWriter(..., restval="N/A"): the cells of one row
RenderRow(fieldnames, row) ==
    [x \in DOMAIN fieldnames |->
        IF fieldnames[x] \in DOMAIN row THEN row[fieldnames[x]]
        ELSE Str("N/A")]

WriteReport(fieldnames, rows) ==
    [written |-> TRUE, header |-> fieldnames,
     rows |-> [x \in DOMAIN rows |-> RenderRow(fieldnames, rows[x])]]

MainOrderedFields == <<
    "TestCategory", "Engine", "ModelType", "Humanoids", "Worlds",
    "ModelFile", "SimulationTime_s", "StepsPerSecond", "TimePerStep_us",
    "DOF", "Profiler_step_us", "Profiler_constraint_us",
    "Profiler_collision_us", "Error", "stderr" >>

\* section 4: write the CSV file, unless nothing was collected
MainWriteCsv ==
    /\ driver = "main" /\ phase = "write" /\ child = "none"
    /\ phase' = "done"
    /\ report' = IF results = << >> THEN report
                 ELSE WriteReport(
                        FinalFieldnames(MainOrderedFields, all_fieldnames),
                        results)
    /\ UNCHANGED <<driver, config, missing, scenes, i, k, j, environ>>
    /\ Idle

MainInitialFieldnames ==
    {"Engine", "ModelType", "Humanoids", "ModelFile", "Error",
     "TestCategory", "Worlds"}

---------------------------------------------------------------------------
(* run_benchmark_commandbuffer.py: main().  run_command_and_parse and the   *)
(* parsers of this script are those of run_benchmark.py, line for line.    *)

\* the context fields of cb without the annotation of the scale
CbContextWithoutScale(category, engine, model_type, humanoids, worlds, model_file, scale) ==
    Context(category, engine, model_type, humanoids, worlds, model_file)

\* the context fields of cb: those of main and CudaLaunchQueueScale
CbContext(category, engine, model_type, humanoids, worlds, model_file, scale) ==
    Update(Context(category, engine, model_type, humanoids, worlds, model_file),
           [CudaLaunchQueueScale |-> Str(scale)])

\* section 1, branch 2: an engine other than cuda_mujoco; and the loop header
CbExeModelScaling ==
    /\ driver = "cb" /\ phase = "exeMS" /\ child = "none" /\ k = 0
    /\ \/ /\ i > Len(EXE_TEST_CONFIGS)
          /\ Goto("warpMS")
          /\ UNCHANGED k
          /\ Idle
       \/ /\ i <= Len(EXE_TEST_CONFIGS) /\ j = 0
          /\ IF ~PathExists(EXE_TEST_CONFIGS[i].exe_path)
             THEN i' = i + 1 /\ j' = 0 /\ k' = 0
             ELSE IF EXE_TEST_CONFIGS[i].engine_name = "cuda_mujoco"
             THEN i' = i /\ j' = 0 /\ k' = 1
             ELSE i' = i /\ j' = 1 /\ k' = 0
          /\ UNCHANGED phase
          /\ Idle
       \/ /\ i <= Len(EXE_TEST_CONFIGS) /\ j > Len(ModelList)
          /\ i' = i + 1 /\ j' = 0
          /\ UNCHANGED <<phase, k>>
          /\ Idle
       \/ /\ i <= Len(EXE_TEST_CONFIGS) /\ j \in DOMAIN ModelList
          /\ ~ModelPresent(EXE_TEST_CONFIGS[i].model_base_path, ModelList[j][2])
          /\ j' = j + 1
          /\ UNCHANGED <<phase, i, k>>
          /\ Idle
       \/ /\ i <= Len(EXE_TEST_CONFIGS) /\ j \in DOMAIN ModelList
          /\ ModelPresent(EXE_TEST_CONFIGS[i].model_base_path, ModelList[j][2])
          /\ Launch(CbContext("ModelScaling", EXE_TEST_CONFIGS[i].engine_name,
                              EXE_TEST_CONFIGS[i].model_type, ModelList[j][1],
                              1, ModelList[j][2], "N/A"), "exe")
          /\ UNCHANGED <<phase, i, k, j, results, all_fieldnames>>
    /\ UNCHANGED <<driver, config, missing, scenes, environ, report>>

\* the loop over the scales without the assignment to os.environ
KeepLaunchQueueScale(scale) == environ' = environ

\* os.environ["CUDA_SCALE_LAUNCH_QUEUES"] = scale
SetLaunchQueueScale(scale) == environ' = scale

\* section 1, branch 1: cuda_mujoco, for scale in CUDA_LAUNCH_QUEUE_SCALES
CbCudaModelScaling ==
    /\ driver = "cb" /\ phase = "exeMS" /\ child = "none" /\ k >= 1
    /\ \/ /\ k > Len(CUDA_LAUNCH_QUEUE_SCALES)
          /\ i' = i + 1 /\ j' = 0 /\ k' = 0
          /\ UNCHANGED <<phase, environ>>
          /\ Idle
       \/ /\ k \in DOMAIN CUDA_LAUNCH_QUEUE_SCALES /\ j = 0
          /\ SetLaunchQueueScale(CUDA_LAUNCH_QUEUE_SCALES[k])
          /\ j' = 1
          /\ UNCHANGED <<phase, i, k>>
          /\ Idle
       \/ /\ k \in DOMAIN CUDA_LAUNCH_QUEUE_SCALES /\ j > Len(ModelList)
          /\ k' = k + 1 /\ j' = 0
          /\ UNCHANGED <<phase, i, environ>>
          /\ Idle
       \/ /\ k \in DOMAIN CUDA_LAUNCH_QUEUE_SCALES /\ j \in DOMAIN ModelList
          /\ ~ModelPresent(EXE_TEST_CONFIGS[i].model_base_path, ModelList[j][2])
          /\ j' = j + 1
          /\ UNCHANGED <<phase, i, k, environ>>
          /\ Idle
       \/ /\ k \in DOMAIN CUDA_LAUNCH_QUEUE_SCALES /\ j \in DOMAIN ModelList
          /\ ModelPresent(EXE_TEST_CONFIGS[i].model_base_path, ModelList[j][2])
          /\ Launch(CbContext("ModelScaling", EXE_TEST_CONFIGS[i].engine_name,
                              EXE_TEST_CONFIGS[i].model_type, ModelList[j][1],
                              1, ModelList[j][2],
                              CUDA_LAUNCH_QUEUE_SCALES[k]), "exe")
          /\ UNCHANGED <<phase, i, k, j, environ, results, all_fieldnames>>
    /\ UNCHANGED <<driver, config, missing, scenes, report>>

\* section 2: for engine_name, config in WARP_ENGINES.items()
CbWarpModelScaling ==
    /\ driver = "cb" /\ phase = "warpMS" /\ child = "none"
    /\ \/ /\ i > Len(WARP_ENGINES)
          /\ Goto("warpWS")
          /\ Idle
       \/ /\ i <= Len(WARP_ENGINES) /\ j = 0
          /\ IF WarpPreflight(WARP_ENGINES[i])
             THEN j' = 1 /\ i' = i
             ELSE j' = 0 /\ i' = i + 1
          /\ UNCHANGED phase
          /\ Idle
       \/ /\ i <= Len(WARP_ENGINES) /\ j > Len(ModelList)
          /\ i' = i + 1 /\ j' = 0
          /\ UNCHANGED phase
          /\ Idle
       \/ /\ i <= Len(WARP_ENGINES) /\ j \in DOMAIN ModelList
          /\ Launch(CbContext("ModelScaling", WARP_ENGINES[i].engine_name,
                              "default", ModelList[j][1], DEFAULT_WORLDS,
                              ModelList[j][2], "N/A"), "warp")
          /\ UNCHANGED <<phase, i, j, results, all_fieldnames>>
    /\ UNCHANGED <<driver, config, missing, scenes, k, environ, report>>

\* section 3: if "mujoco_warp" in WARP_ENGINES: for nworld in NWORLD_SCALING_LIST
CbWarpWorldScaling ==
    /\ driver = "cb" /\ phase = "warpWS" /\ child = "none"
    /\ \/ /\ j = 0
          /\ IF WarpPreflight(WARP_ENGINES[1])
             THEN j' = 1 /\ UNCHANGED <<phase, i>>
             ELSE Goto("cudaWS")
          /\ Idle
       \/ /\ j > Len(WorldList)
          /\ Goto("cudaWS")
          /\ Idle
       \/ /\ j \in DOMAIN WorldList
          /\ Launch(CbContext("WorldScaling", "mujoco_warp", "nworld_scaling",
                              1, WorldList[j], NWORLD_WARP_BASE_MODEL, "N/A"),
                    "warp")
          /\ UNCHANGED <<phase, i, j, results, all_fieldnames>>
    /\ UNCHANGED <<driver, config, missing, scenes, k, environ, report>>

\* section 4: cuda_mujoco WorldScaling, for scale / for count
CbCudaWorldScaling ==
    /\ driver = "cb" /\ phase = "cudaWS" /\ child = "none"
    /\ \/ /\ k = 0
          /\ IF /\ PathExists(CudaConfig.exe_path)
                /\ PathExists(<<CUDA_NWORLD_MODEL_BASE_PATH, "">>)
             THEN k' = 1 /\ j' = 0 /\ UNCHANGED <<phase, i>>
             ELSE Goto("write") /\ k' = 0
          /\ UNCHANGED environ
          /\ Idle
       \/ /\ k > Len(CUDA_LAUNCH_QUEUE_SCALES)
          /\ Goto("write") /\ k' = 0
          /\ UNCHANGED environ
          /\ Idle
       \/ /\ k \in DOMAIN CUDA_LAUNCH_QUEUE_SCALES /\ j = 0
          /\ SetLaunchQueueScale(CUDA_LAUNCH_QUEUE_SCALES[k])
          /\ j' = 1
          /\ UNCHANGED <<phase, i, k>>
          /\ Idle
       \/ /\ k \in DOMAIN CUDA_LAUNCH_QUEUE_SCALES /\ j > Len(WorldList)
          /\ k' = k + 1 /\ j' = 0
          /\ UNCHANGED <<phase, i, environ>>
          /\ Idle
       \/ /\ k \in DOMAIN CUDA_LAUNCH_QUEUE_SCALES /\ j \in DOMAIN WorldList
          /\ ~ModelPresent(CUDA_NWORLD_MODEL_BASE_PATH,
                           NWorldModelFile(WorldList[j]))
          /\ j' = j + 1
          /\ UNCHANGED <<phase, i, k, environ>>
          /\ Idle
       \/ /\ k \in DOMAIN CUDA_LAUNCH_QUEUE_SCALES /\ j \in DOMAIN WorldList
          /\ ModelPresent(CUDA_NWORLD_MODEL_BASE_PATH,
                          NWorldModelFile(WorldList[j]))
          /\ Launch(CbContext("WorldScaling", "cuda_mujoco",
                              "nworld_equivalent", WorldList[j], WorldList[j],
                              NWorldModelFile(WorldList[j]),
                              CUDA_LAUNCH_QUEUE_SCALES[k]), "exe")
          /\ UNCHANGED <<phase, i, k, j, environ, results, all_fieldnames>>
    /\ UNCHANGED <<driver, config, missing, scenes, report>>

CbOrderedFields == <<
    "TestCategory", "Engine", "ModelType", "Humanoids", "Worlds",
    "ModelFile", "CudaLaunchQueueScale", "SimulationTime_s",
    "StepsPerSecond", "TimePerStep_us", "DOF", "Profiler_step_us",
    "Profiler_constraint_us", "Profiler_collision_us", "Error", "stderr" >>

\* section 5: write the CSV file, unless nothing was collected
CbWriteCsv ==
    /\ driver = "cb" /\ phase = "write" /\ child = "none"
    /\ phase' = "done"
    /\ report' = IF results = << >> THEN report
                 ELSE WriteReport(
                        FinalFieldnames(CbOrderedFields, all_fieldnames),
                        results)
    /\ UNCHANGED <<driver, config, missing, scenes, i, k, j, environ>>
    /\ Idle

CbInitialFieldnames ==
    {"Engine", "ModelType", "Humanoids", "ModelFile", "Error",
     "TestCategory", "Worlds", "CudaLaunchQueueScale"}

---------------------------------------------------------------------------
(* run_benchmark_linux.py.  The column written "Time per Step (micro-s)"   *)
(* here is spelled with a MICRO SIGN in the script.                        *)

GLOBAL_STEPS == 1000

\* the keyword arguments of cmd_template.format(...)
FormatKwargs == {"full_path", "steps", "xml_path", "ctrlnoise"}

\* the keys of DEFAULT_ENGINE_OPTIONS (scene_converter.py)
DEFAULT_ENGINE_OPTIONS == {"mujoco", "cuda_mujoco", "mjx", "mujoco_warp"}

\* CONFIG as the repository ships it; placeholders[e] are the replacement
\* fields of the engine's cmd_template
ShippedConfig ==
    [engines |-> <<"mujoco", "mjx", "mujoco_warp", "cuda_mujoco">>,
     enabled |-> {"mujoco", "mjx", "mujoco_warp", "cuda_mujoco"},
     placeholders |->
        [e \in {"mujoco", "mjx", "mujoco_warp", "cuda_mujoco", "newton"} |->
            IF e \in {"mujoco", "cuda_mujoco"}
            THEN {"full_path", "steps", "ctrlnoise"}
            ELSE {"full_path", "steps"}]]

\* the configurations the script is started with: as shipped, one engine
\* switched off, none switched on, an engine added that scene_converter does
\* not know, and a template written with the placeholder {model_path}
ConfigChoices ==
    { ShippedConfig,
      [ShippedConfig EXCEPT !.enabled = @ \ {"mjx"}],
      [ShippedConfig EXCEPT !.enabled = {}],
      [ShippedConfig EXCEPT !.engines = Append(@, "newton"),
                            !.enabled = @ \cup {"newton"}],
      [ShippedConfig EXCEPT !.placeholders["mujoco_warp"] =
                                {"model_path", "steps"}] }

SourceSceneDir == <<"scenes/humanoid/generated_dense_rings", "">>

\* a scene file: its name, its name without extension, and the number
\* get_sort_key finds in it (-1 when the name has no digit)
SceneFile(x) ==
    [file |-> MODEL_SCALING_LIST[x][2],
     stem |-> CASE x = 1 -> "humanoid" [] x = 2 -> "8_humanoids"
                [] x = 3 -> "22_humanoids" [] x = 4 -> "50_humanoids"
                [] x = 5 -> "100_humanoids" [] x = 6 -> "200_humanoids",
     key  |-> IF x = 1 THEN -1 ELSE MODEL_SCALING_LIST[x][1]]

\* the contents the source scene directory can have
SceneChoices == SUBSET {SceneFile(x) : x \in 1..NModels}

\* the files in an order sort() with this key does not give: descending
SortFilesDescending(set) ==
    CHOOSE s \in [1..Cardinality(set) -> set] :
        \A x, y \in DOMAIN s : x < y => s[x].key > s[y].key

\* files.sort(key=get_sort_key): ascending by (number, name)
SortFiles(set) ==
    CHOOSE s \in [1..Cardinality(set) -> set] :
        \A x, y \in DOMAIN s : x < y => s[x].key < s[y].key

\* prepare_scenes_for_all_engines: the engines that get a scene directory;
\* shutil.copytree raises when the source directory does not exist
PreparedEngines(cfg) ==
    {e \in cfg.enabled : e \in DEFAULT_ENGINE_OPTIONS}

PrepareRaises(cfg) ==
    PreparedEngines(cfg) # {} /\ ~PathExists(SourceSceneDir)

LinKeys == <<"Simulation Time (s)", "SPS", "RTF", "Time per Step (micro-s)">>

\* the patterns of parse_output, per engine
LinuxPatterns(engine_name) ==
    CASE engine_name = "mujoco" -> <<
           Rule(LinKeys[1], Pat("Simulation time", "+", "+", DD, "+", {"s"}), FALSE, 1),
           Rule(LinKeys[2], Pat("Steps per second", "+", "+", DD, "", {}), FALSE, 1),
           Rule(LinKeys[3], Pat("Realtime factor", "+", "+", DD, "+", {"x"}), FALSE, 1),
           Rule(LinKeys[4], Pat("Time per step", "+", "+", DD, "+", {"micro-s"}), FALSE, 1) >>
      [] engine_name = "mjx" -> <<
           Rule(LinKeys[1], Pat("Total simulation time", "", "+", DD, "+", {"s"}), FALSE, 1),
           Rule(LinKeys[2], Pat("Total steps per second", "", "+", DD, "", {}), FALSE, 1),
           Rule(LinKeys[3], Pat("Total realtime factor", "", "+", DD, "+", {"x"}), FALSE, 1),
           Rule(LinKeys[4], Pat("Total time per step", "", "+", DD, "+", {"micro-s"}), FALSE, 1) >>
      [] engine_name = "mujoco_warp" -> <<
           Rule(LinKeys[1], Pat("Total simulation time", "", "+", DD, "+", {"s"}), FALSE, 1),
           Rule(LinKeys[2], Pat("Total steps per second", "", "+", DD, "", {}), FALSE, 1),
           Rule(LinKeys[3], Pat("Total realtime factor", "", "+", DD, "+", {"x"}), FALSE, 1),
           Rule(LinKeys[4], Pat("Total time per step", "", "+", DD, "+", {"ns"}), FALSE, 1000) >>
      [] engine_name = "cuda_mujoco" -> <<
           Rule(LinKeys[1], Pat("Total wall time", "+", "+", DD, "+", {"s"}), FALSE, 1),
           Rule(LinKeys[2], Pat("Steps per second", "+", "+", DD, "", {}), FALSE, 1),
           Rule(LinKeys[3], Pat("Realtime factor", "+", "+", DD, "+", {"x"}), FALSE, 1),
           Rule(LinKeys[4], Pat("Time per step", "+", "+", DD, "+", {"micro-s"}), FALSE, 1) >>
      [] OTHER -> << >>

\* parse_output: every key starts as None
parse_output(engine_name, stdout_text) ==
    Both([raised |-> FALSE, data |-> [x \in SeqToSet(LinKeys) |-> None]],
         ApplyRules(LinuxPatterns(engine_name), stdout_text))

\* summary_results.append({Scene, Engine, Steps, **metrics}), or the except
\* branch when parse_output raised
LinuxRow(metrics, ctx) ==
    IF metrics.raised
    THEN Update(ctx, [Error |-> Str("could not convert string to float")])
    ELSE Update(Update(ctx, [Steps |-> IntV(GLOBAL_STEPS)]), metrics.data)

\* the body of "for filename in files" from subprocess.run on, as a function
\* of what the child did; stderr=subprocess.STDOUT merges the two streams
LinuxIteration(outcome, ctx) ==
    CASE outcome.kind = "oserror" ->
           Update(ctx, [Error |-> Str(outcome.msg)])
      [] outcome.kind = "exit" ->
           LinuxRow(parse_output(ctx.Engine.str,
                                 outcome.stdout \o outcome.stderr), ctx)

\* run_benchmarks up to the loop over the engines
LinuxPrepare ==
    /\ driver = "linux" /\ phase = "prepare"
    /\ IF config.enabled = {} THEN phase' = "save"
       ELSE IF PrepareRaises(config) THEN phase' = "crashed"
       ELSE phase' = "engines"
    /\ UNCHANGED <<driver, config, missing, scenes, i, k, j, environ, report>>
    /\ Idle

\* for engine_name, engine_cfg in CONFIG['engines'].items(): for filename in files
LinuxEngineLoop ==
    /\ driver = "linux" /\ phase = "engines" /\ child = "none"
    /\ \/ /\ i > Len(config.engines)
          /\ phase' = "save"
          /\ UNCHANGED <<i, j>>
          /\ Idle
       \/ /\ i <= Len(config.engines) /\ j = 0
          /\ IF \/ config.engines[i] \notin config.enabled
                \/ config.engines[i] \notin PreparedEngines(config)
                \/ SortFiles(scenes) = << >>
             THEN i' = i + 1 /\ j' = 0
             ELSE i' = i /\ j' = 1
          /\ UNCHANGED phase
          /\ Idle
       \/ /\ i <= Len(config.engines) /\ j > Len(SortFiles(scenes))
          /\ i' = i + 1 /\ j' = 0
          /\ UNCHANGED phase
          /\ Idle
       \/ /\ i <= Len(config.engines) /\ j \in DOMAIN SortFiles(scenes)
          /\ ~(config.placeholders[config.engines[i]] \subseteq FormatKwargs)
          /\ phase' = "crashed"
          /\ UNCHANGED <<i, j>>
          /\ Idle
       \/ /\ i <= Len(config.engines) /\ j \in DOMAIN SortFiles(scenes)
          /\ config.placeholders[config.engines[i]] \subseteq FormatKwargs
          /\ Launch([Scene |-> Str(SortFiles(scenes)[j].stem),
                     Engine |-> Str(config.engines[i])], config.engines[i])
          /\ UNCHANGED <<phase, i, j, results, all_fieldnames>>
    /\ UNCHANGED <<driver, config, missing, scenes, k, environ, report>>

\* summary_results.append(...) of either branch
LinuxRecord(outcome) ==
    /\ results' = AppendRow(results, LinuxIteration(outcome, cur.ctx))
    /\ hist' = [hist EXCEPT ![Len(hist)].out = outcome]
    /\ child' = "none"
    /\ cur' = NoCur
    /\ j' = j + 1

\* subprocess.run returns or raises at once; it is called without a timeout
LinuxProcessReturns ==
    /\ driver = "linux"
    /\ child \in {"running", "nolaunch"}
    /\ \/ /\ child = "nolaunch"
          /\ LinuxRecord(OsError)
          /\ UNCHANGED faults
       \/ /\ child = "running"
          /\ LinuxRecord(NominalExit(cur.parser_type))
          /\ UNCHANGED faults
       \/ /\ child = "running"
          /\ faults < MaxFaults
          /\ \E o \in FaultyExits(cur.parser_type) : LinuxRecord(o)
          /\ faults' = faults + 1
    /\ UNCHANGED <<driver, config, missing, scenes, phase, i, k, environ,
                   report, all_fieldnames>>

\* pd.DataFrame(summary).columns: the keys in the order they first appear.
\* A row that succeeded has Scene, Engine, Steps and the metrics; one that
\* failed has Scene, Engine, Error.
FrameColumns(rows) ==
    LET Has(c) == \E x \in DOMAIN rows : c \in DOMAIN rows[x]
        First(c) == CHOOSE x \in DOMAIN rows :
                        /\ c \in DOMAIN rows[x]
                        /\ \A y \in 1..(x - 1) : c \notin DOMAIN rows[y]
    IN  IF ~Has("Error") THEN
            IF Has("Steps") THEN <<"Scene", "Engine", "Steps">> \o LinKeys
            ELSE << >>
        ELSE IF ~Has("Steps") THEN <<"Scene", "Engine", "Error">>
        ELSE IF First("Error") < First("Steps")
             THEN <<"Scene", "Engine", "Error", "Steps">> \o LinKeys
             ELSE <<"Scene", "Engine", "Steps">> \o LinKeys \o <<"Error">>

LinuxCols == <<"Scene", "Engine", "Steps">> \o LinKeys

\* the columns left in the order of the frame
LinuxHeaderAsFramed(rows) == FrameColumns(rows)

\* existing_cols + remaining_cols
LinuxHeader(rows) ==
    SelectSeq(LinuxCols, LAMBDA c : c \in SeqToSet(FrameColumns(rows)))
    \o SelectSeq(FrameColumns(rows), LAMBDA c : c \notin SeqToSet(LinuxCols))

\* DataFrame.to_excel: a cell that is missing or None is written empty
LinuxRenderRow(header, row) ==
    [x \in DOMAIN header |->
        IF header[x] \in DOMAIN row /\ row[header[x]] # None
        THEN row[header[x]] ELSE Str("")]

\* save_to_excel(summary, logs)
LinuxSave ==
    /\ driver = "linux" /\ phase = "save"
    /\ phase' = "done"
    /\ report' = IF results = << >> THEN report
                 ELSE [written |-> TRUE, header |-> LinuxHeader(results),
                       rows |-> [x \in DOMAIN results |->
                                   LinuxRenderRow(LinuxHeader(results),
                                                  results[x])]]
    /\ UNCHANGED <<driver, config, missing, scenes, i, k, j, environ>>
    /\ Idle

---------------------------------------------------------------------------
(* The disk.                                                               *)

ModelFiles == {<<"humanoid", ModelList[x][2]>> : x \in DOMAIN ModelList}
NWorldFiles == {<<CUDA_NWORLD_MODEL_BASE_PATH, NWorldModelFile(WorldList[x])>> :
                   x \in DOMAIN WorldList}

\* the states of the disk a run of main or cb is started on
MissingChoices ==
    {{}} \cup
    {{p} : p \in {MujocoExe, CudaExe, WarpScript,
                  <<CUDA_NWORLD_MODEL_BASE_PATH, "">>}
                 \cup ModelFiles \cup NWorldFiles} \cup
    {{WarpRoot, WarpScript}, {MujocoExe, CudaExe, WarpRoot, WarpScript}}

---------------------------------------------------------------------------

NoConfig == [engines |-> << >>, enabled |-> {}]

\* main and cb start at their first loop
InitWindows ==
    /\ driver \in {"main", "cb"}
    /\ config = NoConfig
    /\ missing \in MissingChoices
    /\ scenes = {}
    /\ phase = "exeMS"
    /\ all_fieldnames = IF driver = "main" THEN MainInitialFieldnames
                        ELSE CbInitialFieldnames

\* run_benchmarks of linux starts with the scene preparation
InitLinux ==
    /\ driver = "linux"
    /\ config \in ConfigChoices
    /\ scenes \in SceneChoices
    /\ missing \in {{}, {SourceSceneDir}}
    /\ phase = "prepare"
    /\ all_fieldnames = {}

Init ==
    /\ InitWindows \/ InitLinux
    /\ i = 1 /\ k = 0 /\ j = 0
    /\ child = "none"
    /\ cur = NoCur
    /\ environ = "unset"
    /\ results = << >>
    /\ report = NoReport
    /\ hist = << >>
    /\ faults = 0

Next ==
    \/ MainExeModelScaling
    \/ MainWarpModelScaling
    \/ MainWarpWorldScaling
    \/ MainCudaWorldScaling
    \/ MainWriteCsv
    \/ CbExeModelScaling
    \/ CbCudaModelScaling
    \/ CbWarpModelScaling
    \/ CbWarpWorldScaling
    \/ CbCudaWorldScaling
    \/ CbWriteCsv
    \/ LinuxPrepare
    \/ LinuxEngineLoop
    \/ LinuxProcessReturns
    \/ LinuxSave
    \/ ProcessReturns
    \/ TimeoutExpires

Spec == Init /\ [][Next]_vars

\* run_benchmark.py alone: "if __name__ == '__main__': main()"
InitMain == Init /\ driver = "main"

NextMain ==
    \/ MainExeModelScaling
    \/ MainWarpModelScaling
    \/ MainWarpWorldScaling
    \/ MainCudaWorldScaling
    \/ MainWriteCsv
    \/ ProcessReturns
    \/ TimeoutExpires

SpecMain == InitMain /\ [][NextMain]_vars

\* run_benchmark_commandbuffer.py alone
InitCb == Init /\ driver = "cb"

NextCb ==
    \/ CbExeModelScaling
    \/ CbCudaModelScaling
    \/ CbWarpModelScaling
    \/ CbWarpWorldScaling
    \/ CbCudaWorldScaling
    \/ CbWriteCsv
    \/ ProcessReturns
    \/ TimeoutExpires

SpecCb == InitCb /\ [][NextCb]_vars

---------------------------------------------------------------------------
(* The sweeps of run_benchmark.py, and run_benchmark_linux.py as shipped   *)
(* on a scene directory that holds several humanoid scenes.                *)

\* the number of scene files in that directory
NScenes == 3

\* os.listdir(scan_dir): the first scenes of MODEL_SCALING_LIST
FullSceneDir == {SceneFile(x) : x \in 1..NScenes}

InitLinuxFullDir ==
    /\ driver = "linux"
    /\ config = ShippedConfig
    /\ scenes = FullSceneDir
    /\ missing = {}
    /\ phase = "prepare"
    /\ all_fieldnames = {}

InitSweeps ==
    /\ InitMain \/ (/\ InitLinuxFullDir
                    /\ i = 1 /\ k = 0 /\ j = 0
                    /\ child = "none"
                    /\ cur = NoCur
                    /\ environ = "unset"
                    /\ results = << >>
                    /\ report = NoReport
                    /\ hist = << >>
                    /\ faults = 0)

NextSweeps ==
    \/ MainExeModelScaling
    \/ MainWarpModelScaling
    \/ MainWarpWorldScaling
    \/ MainCudaWorldScaling
    \/ MainWriteCsv
    \/ ProcessReturns
    \/ TimeoutExpires
    \/ LinuxPrepare
    \/ LinuxEngineLoop
    \/ LinuxProcessReturns
    \/ LinuxSave

SpecSweeps == InitSweeps /\ [][NextSweeps]_vars

---------------------------------------------------------------------------
(* One invocation, on the lines a child can print.  The run is taken up     *)
(* where subprocess.run is about to return: the output of the child is      *)
(* the input, the parser and the writer of the script act on it.            *)

\* the labels of the four scalar lines as the engines print them
ScalarLabels(dialect) ==
    CASE dialect \in {"exe", "mujoco"} ->
           <<"Simulation time", "Steps per second", "Realtime factor",
             "Time per step">>
      [] dialect = "cuda_mujoco" ->
           <<"Total wall time", "Steps per second", "Realtime factor",
             "Time per step">>
      [] OTHER ->
           <<"Total simulation time", "Total steps per second",
             "Total realtime factor", "Total time per step">>

\* blanks between label and colon: testspeed pads its labels, the python
\* engines print "label: value"
LabelPad(dialect) ==
    IF dialect \in {"exe", "mujoco", "cuda_mujoco"} THEN 1 ELSE 0

\* the numbers printed: plain, and with a thousands separator
PrintedNumbers ==
    { <<"4", "5", ".", "6">>,
      <<"1", "2", "0", "0", ".", "0">>,
      <<"1", ",", "2", "3", "4", ".", "5">> }

\* what follows the number of scalar line m once the output is decoded.
\* The microsecond unit of testspeed is the bytes of a micro sign and "s":
\* under encoding='latin-1' they arrive as "micro-s" (byte B5), as
\* "utf8-micro-s" (bytes C2 B5: A-circumflex, micro sign), as "?s" when the
\* console replaced the sign, or as "us"; a GREEK MU cannot come out of a
\* latin-1 decode.  linux decodes with the locale (UTF-8): "micro-s".
PrintedUnits(dialect, m) ==
    CASE m = 1 -> {"s"}
      [] m = 2 -> {""}
      [] m = 3 -> {"x"}
      [] m = 4 ->
           CASE dialect = "exe" -> {"micro-s", "utf8-micro-s", "?s", "us"}
             [] dialect \in {"warp", "mujoco_warp"} -> {"ns"}
             [] OTHER -> {"micro-s"}

\* scalar line m of a dialect with a number and a unit
ScalarLine(dialect, m, tok, unit) ==
    L(ScalarLabels(dialect)[m], LabelPad(dialect), 1, tok,
      IF unit = "" THEN 0 ELSE 1, unit)

\* the simulation time line of the nominal output
SimulationTimeLine(dialect) == NominalText(dialect)[1]

\* the outputs: one scalar line, after the simulation time line when it is
\* not itself that line
PrintedTexts(dialect) ==
    { IF m = 1 THEN << ScalarLine(dialect, m, tok, unit) >>
      ELSE << SimulationTimeLine(dialect), ScalarLine(dialect, m, tok, unit) >> :
        <<m, tok, unit>> \in
            { t \in (1..4) \X PrintedNumbers
                      \X {"s", "", "x", "micro-s", "utf8-micro-s", "?s", "us", "ns"} :
                t[3] \in PrintedUnits(dialect, t[1]) } }

\* the invocations: the first scenario of loop 1 and of loop 2 of main, and
\* the first scene of each engine of linux
ParseScenarios ==
    { [driver |-> "main", parser_type |-> "exe",
       ctx |-> Context("ModelScaling", EXE_TEST_CONFIGS[1].engine_name,
                       EXE_TEST_CONFIGS[1].model_type,
                       MODEL_SCALING_LIST[1][1], 1, MODEL_SCALING_LIST[1][2])],
      [driver |-> "main", parser_type |-> "warp",
       ctx |-> Context("ModelScaling", WARP_ENGINES[1].engine_name, "default",
                       MODEL_SCALING_LIST[1][1], DEFAULT_WORLDS,
                       MODEL_SCALING_LIST[1][2])] }
    \cup { [driver |-> "linux", parser_type |-> e,
            ctx |-> [Scene |-> Str(SceneFile(1).stem), Engine |-> Str(e)]] :
             e \in ShippedConfig.enabled }

\* the dialect a scenario's child prints
ScenarioDialect(s) ==
    IF s.driver = "linux" THEN s.parser_type ELSE DialectOf(s.parser_type)

\* print(f"STDOUT: {result.stdout[:500]}..."), print(f"STDERR: ...[:500]..."):
\* the number of characters of a diagnostic put on the console
DIAGNOSTIC_PRINT_LIMIT == 500

\* an output of more lines than that, none of them known to a parser
LongText == [x \in 1..(DIAGNOSTIC_PRINT_LIMIT + 1) |-> Junk("x")]

\* tokens of the characters [\d.] that are not numbers
MalformedNumbers == { <<".">>, <<"1", ".", "2", ".", "3">> }

\* the simulation time line followed by a steps-per-second line whose token
\* is not a number
MalformedTexts(dialect) ==
    { << SimulationTimeLine(dialect), ScalarLine(dialect, 2, tok, "") >> :
        tok \in MalformedNumbers }

\* a line of the profiler table of testspeed ("  position : 12.0 (..%)") or
\* of the event trace of mujoco_warp ("  fwd_position: 1200.0")
PhaseLine(dialect, name, tok) ==
    IF dialect = "warp" THEN L(name, 0, 1, tok, 0, "")
    ELSE L(name, 1, 1, tok, 1, "(")

EventTrace == L("Event trace", 0, 0, <<>>, 0, "")

\* phase names printed: a name and a longer one that starts with it, in the
\* spelling of either dialect
PhaseNames == {"position", "position total", "fwd_position", "step"}

\* the simulation time line and two phase lines; for warp with the marker
\* before them, between them, after them, or without it
ProfilerTexts(dialect) ==
    IF dialect \notin {"exe", "warp"} THEN {}
    ELSE { << SimulationTimeLine(dialect) >> \o marker[1]
           \o << PhaseLine(dialect, a, <<"4", "5", ".", "6">>) >> \o marker[2]
           \o << PhaseLine(dialect, b, <<"1", "2", "0", "0", ".", "0">>) >>
           \o marker[3] :
             <<a, b, marker>> \in
                { t \in PhaseNames \X PhaseNames
                        \X { << << >>, << >>, << >> >>,
                             << <<EventTrace>>, << >>, << >> >>,
                             << << >>, <<EventTrace>>, << >> >>,
                             << << >>, << >>, <<EventTrace>> >> } :
                    /\ t[1] # t[2]
                    /\ dialect = "exe" => t[3] = << << >>, << >>, << >> >> } }

\* what the child of a scenario leaves: rc 0 and one of the printed texts,
\* rc 0 and a long text no pattern matches, rc 1 and a long stderr
PrintedOutcomes(dialect) ==
    { Exit(0, text, << >>) :
        text \in PrintedTexts(dialect) \cup MalformedTexts(dialect)
                 \cup ProfilerTexts(dialect) }
    \cup { Exit(0, LongText, << >>), Exit(1, NominalText(dialect), LongText) }

\* subprocess.run is about to return with one of the outcomes
InitParse ==
    /\ \E s \in ParseScenarios : \E o \in PrintedOutcomes(ScenarioDialect(s)) :
          /\ driver = s.driver
          /\ cur = [ctx |-> s.ctx, parser_type |-> s.parser_type]
          /\ hist = << [ctx |-> s.ctx, parser_type |-> s.parser_type,
                        env |-> "unset", out |-> o] >>
    /\ config = IF driver = "linux" THEN ShippedConfig ELSE NoConfig
    /\ scenes = IF driver = "linux" THEN {SceneFile(1)} ELSE {}
    /\ missing = {}
    /\ phase = "parse"
    /\ all_fieldnames = IF driver = "main" THEN MainInitialFieldnames ELSE {}
    /\ i = 1 /\ k = 0 /\ j = 1
    /\ child = "running"
    /\ environ = "unset"
    /\ results = << >>
    /\ report = NoReport
    /\ faults = 0

\* run_command_and_parse returns the parsed output to main, which goes on to
\* write the report
MainParseRun ==
    /\ driver = "main" /\ phase = "parse" /\ child = "running"
    /\ Record(hist[Len(hist)].out)
    /\ phase' = "write"
    /\ UNCHANGED <<driver, config, missing, scenes, i, k, environ, report,
                   faults>>

\* the same step in run_benchmarks of linux
LinuxParseRun ==
    /\ driver = "linux" /\ phase = "parse" /\ child = "running"
    /\ LinuxRecord(hist[Len(hist)].out)
    /\ phase' = "save"
    /\ UNCHANGED <<driver, config, missing, scenes, i, k, environ, report,
                   faults, all_fieldnames>>

NextParse ==
    \/ MainParseRun
    \/ LinuxParseRun
    \/ MainWriteCsv
    \/ LinuxSave

SpecParse == InitParse /\ [][NextParse]_vars

---------------------------------------------------------------------------
(* Properties.                                                             *)

\* every key a parser can put into a metrics record
MetricKeys ==
    {ExeSimpleMetrics[x].key : x \in DOMAIN ExeSimpleMetrics}
    \cup {ExeProfilerRules[x].key : x \in DOMAIN ExeProfilerRules}
    \cup {WarpSimpleMetrics[x].key : x \in DOMAIN WarpSimpleMetrics}
    \cup {WarpProfilerRules[x].key : x \in DOMAIN WarpProfilerRules}
    \cup SeqToSet(LinKeys)

\* the error kind on a row ("error" in main and cb, "Error" in linux)
ErrorOf(row) ==
    IF "error" \in DOMAIN row THEN row.error
    ELSE IF "Error" \in DOMAIN row THEN row.Error
    ELSE None

\* no pattern of the list matches anywhere in the text
NoMatch(rules, text) ==
    \A x \in DOMAIN rules : Search(rules[x].pat, text) = 0

\* the scalar patterns / the phase-profiler patterns of a dialect on a text
NoScalarMatch(parser_type, text) ==
    NoMatch(IF parser_type = "warp" THEN WarpSimpleMetrics
            ELSE ExeSimpleMetrics, text)

NoProfilerMatch(parser_type, text) ==
    IF parser_type = "warp"
    THEN \/ TraceMatch(text) = 0
         \/ NoMatch(WarpProfilerRules,
                    SubSeq(text, TraceMatch(text) + 1, Len(text)))
    ELSE NoMatch(ExeProfilerRules, text)

\* C1: in main() (run_benchmark.py and the command-buffer variant) no
\* scenario is launched twice, and every launch that has returned, whatever
\* its outcome, has exactly one row, the n-th row being that of the n-th
\* launch
C1_OneLaunchOneRow ==
    driver \in {"main", "cb"} =>
        /\ \A m, n \in DOMAIN hist : m # n => hist[m].ctx # hist[n].ctx
        /\ Len(results) = Len(hist) - (IF child = "none" THEN 0 ELSE 1)
        /\ \A n \in DOMAIN results :
              /\ hist[n].out # Pending
              /\ \A key \in DOMAIN hist[n].ctx :
                    /\ key \in DOMAIN results[n]
                    /\ results[n][key] = hist[n].ctx[key]

\* a finished run of main with a failed launch among several
C1_Witness ==
    /\ driver = "main" /\ phase = "done"
    /\ Len(results) >= 3
    /\ \E n \in DOMAIN results : "error" \in DOMAIN results[n]
    /\ \E n \in DOMAIN results : "error" \notin DOMAIN results[n]

\* the number of model files of a sweep, all of them / those on disk
Count(set) == Cardinality(set)

\* the (engine, scenario) pairs the scaling lists of run_benchmark.py
\* enumerate for the engines whose pre-flight check passes
EnumeratedPairs ==
    Count({<<x, y>> \in (DOMAIN EXE_TEST_CONFIGS) \X (DOMAIN ModelList) :
              EXE_TEST_CONFIGS[x].exe_path \notin missing})
    + (IF {WarpRoot, WarpScript} \cap missing = {}
       THEN Len(ModelList) + Len(WorldList) ELSE 0)
    + (IF {CudaExe, <<CUDA_NWORLD_MODEL_BASE_PATH, "">>} \cap missing = {}
       THEN Len(WorldList) ELSE 0)

\* the same pairs without those of the executable sweeps whose model file is
\* not on disk
PairsWithModelFile ==
    Count({<<x, y>> \in (DOMAIN EXE_TEST_CONFIGS) \X (DOMAIN ModelList) :
              /\ EXE_TEST_CONFIGS[x].exe_path \notin missing
              /\ <<EXE_TEST_CONFIGS[x].model_base_path, ModelList[y][2]>>
                    \notin missing})
    + (IF {WarpRoot, WarpScript} \cap missing = {}
       THEN Len(ModelList) + Len(WorldList) ELSE 0)
    + (IF {CudaExe, <<CUDA_NWORLD_MODEL_BASE_PATH, "">>} \cap missing = {}
       THEN Count({y \in DOMAIN WorldList :
                      <<CUDA_NWORLD_MODEL_BASE_PATH,
                        NWorldModelFile(WorldList[y])>> \notin missing})
       ELSE 0)

\* C2 as written: when main() finishes, results has one row per enumerated
\* pair of the engines that passed pre-flight, missing model files included
C2_RowPerEnumeratedPair ==
    (driver = "main" /\ phase = "done") => Len(results) = EnumeratedPairs

\* C2: when main() finishes, results has one row per enumerated pair of the
\* engines that passed pre-flight, however many launches failed, except that
\* a pair of an executable sweep whose model file is not on disk has no row
C2_RowPerPairWithModelFile ==
    (driver = "main" /\ phase = "done") => Len(results) = PairsWithModelFile

\* main finished with a model file missing and a failed launch
C2_Witness ==
    /\ driver = "main" /\ phase = "done"
    /\ missing \cap (ModelFiles \cup NWorldFiles) # {}
    /\ \E n \in DOMAIN results : "error" \in DOMAIN results[n]
    /\ Len(results) = PairsWithModelFile
    /\ Len(results) < EnumeratedPairs

\* the scenarios run_benchmarks of linux enumerates
LinuxScenarios ==
    {[Scene |-> Str(f.stem), Engine |-> Str(e)] :
        f \in scenes, e \in PreparedEngines(config)}

\* C3: failure isolation: nothing that happens to one scenario, an error
\* while building its command from the template included, ends the run; once
\* the loop over the engines has stopped, every enumerated scenario has been
\* attempted
C3_FailureIsolation ==
    (/\ driver = "linux" /\ ~PrepareRaises(config)
     /\ phase \in {"save", "done", "crashed"})
    => \A sc \in LinuxScenarios : \E n \in DOMAIN hist : hist[n].ctx = sc

\* C4: the row of a launch that ran into the timeout has error Timeout, no
\* metric key, and every identity field, with the value of its scenario
C4_TimeoutRow ==
    \A n \in DOMAIN results :
        hist[n].out = TimedOut =>
            /\ "error" \in DOMAIN results[n]
            /\ results[n].error = Str("Timeout")
            /\ DOMAIN results[n] \cap MetricKeys = {}
            /\ \A key \in IdentityKeys :
                  /\ key \in DOMAIN results[n]
                  /\ results[n][key] = hist[n].ctx[key]
                  /\ results[n][key] # None

\* a row recorded for a launch that was killed at the timeout
C4_Witness ==
    \E n \in DOMAIN results :
        hist[n].out = TimedOut /\ results[n].error = Str("Timeout")

\* C5: in every driver a child that never exits by itself is ended by the
\* timeout (and recorded as Timeout): the expiry is always possible
C5_InvocationBounded == child = "hung" => ENABLED TimeoutExpires

\* C6: in every driver the row of a process that ended with a non-zero
\* return code has the error kind of a non-zero exit and the captured stderr,
\* and none of its output is parsed into metrics
C6_NonZeroExitRow ==
    \A n \in DOMAIN results :
        (hist[n].out.kind = "exit" /\ hist[n].out.rc # 0) =>
            /\ ErrorOf(results[n]) = Str("ReturnCode_NonZero")
            /\ "stderr" \in DOMAIN results[n]
            /\ results[n].stderr = Txt(hist[n].out.stderr)
            /\ DOMAIN results[n] \cap MetricKeys = {}

\* C7: in every driver the row of a process that returned 0 and printed none
\* of the labels of its dialect has the error kind of a failed parse
C7_NoLabelIsParsingFailed ==
    \A n \in DOMAIN results :
        (/\ hist[n].out.kind = "exit" /\ hist[n].out.rc = 0
         /\ hist[n].out.stdout = UsageText)
        => ErrorOf(results[n]) = Str("Parsing_Failed")

\* C8 as written: a process that returned 0 and whose output matches no
\* scalar metric pattern has a row of kind Parsing_Failed, whether or not
\* phase/profiler lines match
C8_ScalarsDecide ==
    \A n \in DOMAIN results :
        (/\ driver \in {"main", "cb"}
         /\ hist[n].out.kind = "exit" /\ hist[n].out.rc = 0
         /\ NoScalarMatch(hist[n].parser_type, hist[n].out.stdout))
        => ErrorOf(results[n]) = Str("Parsing_Failed")

\* C8: a process that returned 0 has a row of kind Parsing_Failed exactly
\* when no pattern at all of its dialect matches, neither a scalar metric
\* pattern nor a phase/profiler pattern
C8_WholeRecordDecides ==
    \A n \in DOMAIN results :
        (/\ driver \in {"main", "cb"}
         /\ hist[n].out.kind = "exit" /\ hist[n].out.rc = 0)
        => (ErrorOf(results[n]) = Str("Parsing_Failed")
            <=> /\ NoScalarMatch(hist[n].parser_type, hist[n].out.stdout)
                /\ NoProfilerMatch(hist[n].parser_type, hist[n].out.stdout))

\* a row made of profiler keys only, and a row of kind Parsing_Failed
C8_Witness ==
    /\ driver \in {"main", "cb"}
    /\ \E n \in DOMAIN results :
          /\ hist[n].out.kind = "exit" /\ hist[n].out.rc = 0
          /\ NoScalarMatch(hist[n].parser_type, hist[n].out.stdout)
          /\ ~NoProfilerMatch(hist[n].parser_type, hist[n].out.stdout)
          /\ "error" \notin DOMAIN results[n]
          /\ "Profiler_step_us" \in DOMAIN results[n]

\* C9: in the command-buffer driver a process launched for an engine other
\* than cuda_mujoco never inherits a CUDA_SCALE_LAUNCH_QUEUES set for an
\* earlier scenario
C9_NoEnvironmentLeak ==
    driver = "cb" =>
        \A n \in DOMAIN hist :
            hist[n].ctx.Engine # Str("cuda_mujoco") => hist[n].env = "unset"

\* C10: no step removes a key from all_fieldnames or makes it smaller
C10_FieldnamesGrow ==
    [][/\ all_fieldnames \subseteq all_fieldnames'
       /\ Cardinality(all_fieldnames) <= Cardinality(all_fieldnames')]_vars

\* the set after rows of both kinds, a success and a failure, were appended
C10_Witness ==
    /\ driver \in {"main", "cb"}
    /\ {"error", "SimulationTime_s", "Profiler_step_us"} \subseteq all_fieldnames
    /\ Len(results) >= 2

\* the place of a column name in the order of Python's string comparison
LexRank(key) == CHOOSE x \in DOMAIN KeyOrder : KeyOrder[x] = key

\* ordered_fields of the script that runs
OrderedFieldsOf(d) == IF d = "main" THEN MainOrderedFields ELSE CbOrderedFields

\* a sequence without one of its elements
Without(q, key) == SelectSeq(q, LAMBDA c : c # key)

\* C11: the header of the report of main and cb is ordered_fields in its
\* declared order, then every other key of all_fieldnames in lexicographic
\* order, each column once; and the header without a key outside
\* ordered_fields is the header the run would have had without that key, so
\* a key does not move the columns that are there without it
C11_HeaderOrder ==
    (driver \in {"main", "cb"} /\ report.written) =>
        /\ SubSeq(report.header, 1, Len(OrderedFieldsOf(driver)))
              = OrderedFieldsOf(driver)
        /\ SeqToSet(report.header)
              = SeqToSet(OrderedFieldsOf(driver)) \cup all_fieldnames
        /\ \A x, y \in DOMAIN report.header :
              x # y => report.header[x] # report.header[y]
        /\ \A x, y \in DOMAIN report.header :
              Len(OrderedFieldsOf(driver)) < x /\ x < y
              => LexRank(report.header[x]) < LexRank(report.header[y])
        /\ \A key \in all_fieldnames \ SeqToSet(OrderedFieldsOf(driver)) :
              Without(report.header, key)
                 = FinalFieldnames(OrderedFieldsOf(driver),
                                   all_fieldnames \ {key})

\* a report of cb whose header has keys that are not in ordered_fields
C11_Witness ==
    /\ driver = "cb" /\ report.written
    /\ {"error", "stdout"} \subseteq SeqToSet(report.header)
    /\ Len(report.header) >= Len(CbOrderedFields) + 2

\* C12: in the written report of every script, a cell whose key is absent
\* on its row holds the text N/A, never an empty cell and never a zero
C12_AbsentCellIsNA ==
    report.written =>
        \A x \in DOMAIN report.rows : \A c \in DOMAIN report.header :
            report.header[c] \notin DOMAIN results[x]
            => report.rows[x][c] = Str("N/A")

\* C13: a row holds a metric key only when the pattern of that key matched
\* the output, so no key of a row carries the placeholder None
C13_NoPlaceholderKey ==
    \A x \in DOMAIN results : \A key \in DOMAIN results[x] :
        results[x][key] # None

\* the last line of the output of invocation n
LastLine(n) == hist[n].out.stdout[Len(hist[n].out.stdout)]

\* the column of the time per step in the script that runs
TimePerStepKey ==
    IF driver = "linux" THEN "Time per Step (micro-s)" ELSE "TimePerStep_us"

\* the cell of row n under a column of the written report
Cell(n, key) ==
    report.rows[n][CHOOSE c \in DOMAIN report.header : report.header[c] = key]

\* C14: a time per step that the warp engine prints in nanoseconds is in
\* the row under the microsecond key with the value divided by 1000 (1200 ns
\* is 1.2), no key of the row or column of the report is named for
\* nanoseconds, and the report holds the value of the row
C14_NanosecondsOnce ==
    \A n \in DOMAIN results :
        (/\ hist[n].out.kind = "exit" /\ hist[n].out.rc = 0
         /\ LastLine(n).unit = "ns"
         /\ "," \notin SeqToSet(LastLine(n).tok)) =>
            /\ TimePerStepKey \in DOMAIN results[n]
            /\ results[n][TimePerStepKey] = Num(Float(LastLine(n).tok) \div 1000)
            /\ LastLine(n).tok = <<"1", "2", "0", "0", ".", "0">>
                  => results[n][TimePerStepKey] = Num((12 * Scale) \div 10)
            /\ DOMAIN results[n]
                  \cap {"TimePerStep_ns", "Time per Step (ns)"} = {}
            /\ report.written =>
                  /\ SeqToSet(report.header)
                        \cap {"TimePerStep_ns", "Time per Step (ns)"} = {}
                  /\ Cell(n, TimePerStepKey) = results[n][TimePerStepKey]

\* a written report of main whose row came from "Total time per step: 1200.0 ns"
C14_Witness ==
    /\ driver = "main" /\ report.written
    /\ LastLine(1).unit = "ns"
    /\ LastLine(1).tok = <<"1", "2", "0", "0", ".", "0">>
    /\ Cell(1, "TimePerStep_us") = Num((12 * Scale) \div 10)

\* C15: a scalar metric printed with thousands separators is recorded, and
\* its recorded number is the printed one with the separators removed
\* (in microseconds when it was printed in nanoseconds)
C15_SeparatorsStripped ==
    \A n \in DOMAIN results :
        (/\ hist[n].out.kind = "exit" /\ hist[n].out.rc = 0
         /\ "," \in SeqToSet(LastLine(n).tok)) =>
            \E key \in DOMAIN results[n] :
                results[n][key] =
                    Num(Float(StripCommas(LastLine(n).tok))
                          \div (IF LastLine(n).unit = "ns" THEN 1000 ELSE 1))

\* C16: for the executables of main, output with the lines
\* "Simulation time : 12.3 s" and "Time per step : 45.6 <microseconds>" gives
\* a row with SimulationTime_s = 12.3 and TimePerStep_us = 45.6, whichever
\* way the microsecond unit arrives after decoding
C16_MicrosecondSpellings ==
    \A n \in DOMAIN results :
        (/\ hist[n].parser_type = "exe"
         /\ hist[n].out.kind = "exit" /\ hist[n].out.rc = 0
         /\ Len(hist[n].out.stdout) = 2
         /\ hist[n].out.stdout[1] = SimulationTimeLine("exe")
         /\ LastLine(n).label = "Time per step"
         /\ LastLine(n).tok = <<"4", "5", ".", "6">>
         /\ LastLine(n).unit \in PrintedUnits("exe", 4)) =>
            /\ "SimulationTime_s" \in DOMAIN results[n]
            /\ results[n].SimulationTime_s = Num((123 * Scale) \div 10)
            /\ "TimePerStep_us" \in DOMAIN results[n]
            /\ results[n].TimePerStep_us = Num((456 * Scale) \div 10)

\* the engines of run_benchmark.py
MainEngines == {"mujoco", "cuda_mujoco", "mujoco_warp"}

\* the pre-flight check of an engine fails on this disk
PreflightFailed(e) ==
    CASE e = "mujoco"      -> MujocoExe \in missing
      [] e = "cuda_mujoco" -> CudaExe \in missing
      [] e = "mujoco_warp" -> {WarpRoot, WarpScript} \cap missing # {}

\* the scenarios of an engine, as its own lists and model files give them
SweepOf(e) ==
    IF e = "mujoco_warp" THEN Len(ModelList) + Len(WorldList)
    ELSE Count({<<x, y>> \in (DOMAIN EXE_TEST_CONFIGS) \X (DOMAIN ModelList) :
                  /\ EXE_TEST_CONFIGS[x].engine_name = e
                  /\ <<EXE_TEST_CONFIGS[x].model_base_path, ModelList[y][2]>>
                        \notin missing})
         + (IF e = "cuda_mujoco"
               /\ <<CUDA_NWORLD_MODEL_BASE_PATH, "">> \notin missing
            THEN Count({y \in DOMAIN WorldList :
                           <<CUDA_NWORLD_MODEL_BASE_PATH,
                             NWorldModelFile(WorldList[y])>> \notin missing})
            ELSE 0)

LaunchesOf(e) == {n \in DOMAIN hist : hist[n].ctx.Engine = Str(e)}
RowsOf(e) == {n \in DOMAIN results : results[n].Engine = Str(e)}

\* C17: an engine of main whose pre-flight check fails (executable; for
\* mujoco_warp root directory or activation script) is never launched and
\* has no row, and when main has finished every other engine has been
\* launched and has a row for each scenario of its own sweep
C17_PreflightSkipsEngine ==
    driver = "main" =>
        \A e \in MainEngines :
            /\ PreflightFailed(e) => LaunchesOf(e) = {} /\ RowsOf(e) = {}
            /\ (phase = "done" /\ ~PreflightFailed(e)) =>
                  /\ Count(LaunchesOf(e)) = SweepOf(e)
                  /\ Count(RowsOf(e)) = SweepOf(e)

\* main finished without the activation script of mujoco_warp: the
\* executables were run, mujoco_warp was not
C17_Witness ==
    /\ driver = "main" /\ phase = "done"
    /\ WarpScript \in missing /\ WarpRoot \notin missing
    /\ LaunchesOf("mujoco_warp") = {}
    /\ LaunchesOf("mujoco") # {} /\ LaunchesOf("cuda_mujoco") # {}

\* C18: when a run has ended, a report exists if and only if results is
\* not empty, and the report has one data row per collected row, in the
\* order in which the rows were collected
C18_ReportIffRows ==
    phase \in {"done", "crashed"} =>
        /\ report.written <=> (results # << >>)
        /\ report.written =>
              /\ Len(report.rows) = Len(results)
              /\ \A n \in DOMAIN results :
                    \A c \in DOMAIN report.header :
                        report.header[c] \in DOMAIN hist[n].ctx
                        => report.rows[n][c] = hist[n].ctx[report.header[c]]

\* C19: at every moment at most one process started by main is alive: the
\* only launch without an outcome is the last one, it is the one the child
\* variable stands for, and a process is started only when none is alive
C19_OneProcessAlive ==
    /\ \A n \in DOMAIN hist : hist[n].out = Pending => n = Len(hist)
    /\ (child = "none") <=> (\A n \in DOMAIN hist : hist[n].out # Pending)
    /\ child # "none" => Len(results) = Len(hist) - 1

\* the second process of a run is alive after the first was killed at its
\* timeout
C19_Witness ==
    /\ Len(hist) >= 2
    /\ hist[Len(hist)].out = Pending
    /\ hist[Len(hist) - 1].out = TimedOut
    /\ child \in {"running", "hung"}

\* the fixed error kinds, in the spelling of the scripts and of the claim
FixedErrorKinds ==
    { Str("ReturnCode_NonZero"), Str("NonZeroExit"), Str("Timeout"),
      Str("InvocationError"), Str("Parsing_Failed"), Str("ParsingFailed") }

\* C20: the row of a launch whose executable or working directory could
\* not be resolved has the error kind InvocationError, and the error kind
\* of every failure row is one of the fixed kinds, never the text of an
\* exception
C20_FixedErrorKinds ==
    \A n \in DOMAIN results :
        /\ hist[n].out = OsError
              => ErrorOf(results[n]) = Str("InvocationError")
        /\ ErrorOf(results[n]) # None
              => ErrorOf(results[n]) \in FixedErrorKinds

\* the diagnostic texts on a row
Diagnostics(row) ==
    {row[key].text : key \in {"stderr", "stdout"} \cap DOMAIN row}

\* C21: the diagnostic text on a failure row (stderr of a non-zero exit,
\* stdout of a parsing failure) is truncated: however long the captured
\* output, the text on the row is no longer than the bound of the script, 500
\* characters (a text of n lines has n characters or more)
C21_DiagnosticTruncated ==
    \A n \in DOMAIN results : \A t \in Diagnostics(results[n]) :
        Len(t) <= DIAGNOSTIC_PRINT_LIMIT

\* the place of a scenario in the model list of its script: the index of its
\* model file in MODEL_SCALING_LIST, of its scene among the scenes
ScalingRank(ctx) ==
    IF driver = "linux"
    THEN CHOOSE x \in DOMAIN MODEL_SCALING_LIST :
             SceneFile(x).stem = ctx.Scene.str
    ELSE CHOOSE x \in DOMAIN MODEL_SCALING_LIST :
             MODEL_SCALING_LIST[x][2] = ctx.ModelFile.str

\* two rows of the same ModelScaling sweep of one engine
SameModelSweep(a, b) ==
    IF driver = "linux" THEN a.Engine = b.Engine
    ELSE /\ a.TestCategory = Str("ModelScaling")
         /\ b.TestCategory = Str("ModelScaling")
         /\ a.Engine = b.Engine /\ a.ModelType = b.ModelType

\* loop 1 of main for configuration x: the scenarios and whether they are run
ExeSweep(x) ==
    [y \in 1..Len(ModelList) |->
        [ctx |-> Context("ModelScaling", EXE_TEST_CONFIGS[x].engine_name,
                         EXE_TEST_CONFIGS[x].model_type, ModelList[y][1], 1,
                         ModelList[y][2]),
         run |-> /\ EXE_TEST_CONFIGS[x].exe_path \notin missing
                 /\ <<EXE_TEST_CONFIGS[x].model_base_path, ModelList[y][2]>>
                       \notin missing]]

\* loops 2, 3 and 4 of main
WarpModelSweep ==
    [y \in 1..Len(ModelList) |->
        [ctx |-> Context("ModelScaling", "mujoco_warp", "default",
                         ModelList[y][1], DEFAULT_WORLDS, ModelList[y][2]),
         run |-> {WarpRoot, WarpScript} \cap missing = {}]]

WarpWorldSweep ==
    [y \in 1..Len(WorldList) |->
        [ctx |-> Context("WorldScaling", "mujoco_warp", "nworld_scaling", 1,
                         WorldList[y], NWORLD_WARP_BASE_MODEL),
         run |-> {WarpRoot, WarpScript} \cap missing = {}]]

CudaWorldSweep ==
    [y \in 1..Len(WorldList) |->
        [ctx |-> Context("WorldScaling", "cuda_mujoco", "nworld_equivalent",
                         WorldList[y], WorldList[y],
                         NWorldModelFile(WorldList[y])),
         run |-> /\ {CudaExe, <<CUDA_NWORLD_MODEL_BASE_PATH, "">>}
                       \cap missing = {}
                 /\ <<CUDA_NWORLD_MODEL_BASE_PATH,
                      NWorldModelFile(WorldList[y])>> \notin missing]]

\* the engines of linux in the order of CONFIG, each with the sorted files
LinuxSweepOf(files) ==
    [z \in 1..(Len(config.engines) * Len(files)) |->
        [ctx |-> [Scene |-> Str(files[((z - 1) % Len(files)) + 1].stem),
                  Engine |-> Str(config.engines
                                  [((z - 1) \div Len(files)) + 1])],
         run |-> config.engines[((z - 1) \div Len(files)) + 1]
                    \in PreparedEngines(config)]]

LinuxSweep == LinuxSweepOf(SortFiles(scenes))

\* the launches so far are the first scenarios of a sequence, all of them
\* when the run has finished
LaunchedInOrderOf(enum) ==
    /\ Len(hist) <= Len(enum)
    /\ \A n \in DOMAIN hist : hist[n].ctx = enum[n].ctx
    /\ phase = "done" => Len(hist) = Len(enum)

\* the sequence of scenarios a run enumerates, from the configuration and
\* the files on disk alone
Enumeration ==
    SelectSeq(IF driver = "linux" THEN LinuxSweep
              ELSE ExeSweep(1) \o ExeSweep(2) \o ExeSweep(3)
                   \o WarpModelSweep \o WarpWorldSweep \o CudaWorldSweep,
              LAMBDA s : s.run)

ScaleTokens == {Str(CUDA_LAUNCH_QUEUE_SCALES[x]) :
                   x \in DOMAIN CUDA_LAUNCH_QUEUE_SCALES}

\* C23: in cb every row, success or failure, has the key
\* CudaLaunchQueueScale; on a row of cuda_mujoco its value is one of the
\* configured scales, on a row of any other engine it is "N/A"
C23_ScaleOnEveryRow ==
    driver = "cb" =>
        \A n \in DOMAIN results :
            /\ "CudaLaunchQueueScale" \in DOMAIN results[n]
            /\ IF results[n].Engine = Str("cuda_mujoco")
               THEN results[n].CudaLaunchQueueScale \in ScaleTokens
               ELSE results[n].CudaLaunchQueueScale = Str("N/A")

\* cb has rows of cuda_mujoco and of another engine, a failure row of each
C23_Witness ==
    /\ driver = "cb"
    /\ \E n \in DOMAIN results :
          /\ results[n].Engine = Str("cuda_mujoco")
          /\ results[n].CudaLaunchQueueScale = Str("4x")
    /\ \E n \in DOMAIN results :
          /\ results[n].Engine # Str("cuda_mujoco")
          /\ "error" \in DOMAIN results[n]
          /\ results[n].CudaLaunchQueueScale = Str("N/A")

\* the scenarios of cuda_mujoco in cb: every scale with every model of the
\* ModelScaling list and every count of the WorldScaling list whose model
\* file is on disk
CudaCrossProduct ==
    { CbContext("ModelScaling", "cuda_mujoco", EXE_TEST_CONFIGS[x].model_type,
                ModelList[y][1], 1, ModelList[y][2],
                CUDA_LAUNCH_QUEUE_SCALES[s]) :
        <<x, y, s>> \in
           { t \in (DOMAIN EXE_TEST_CONFIGS) \X (DOMAIN ModelList)
                     \X (DOMAIN CUDA_LAUNCH_QUEUE_SCALES) :
               /\ EXE_TEST_CONFIGS[t[1]].engine_name = "cuda_mujoco"
               /\ EXE_TEST_CONFIGS[t[1]].exe_path \notin missing
               /\ <<EXE_TEST_CONFIGS[t[1]].model_base_path,
                    ModelList[t[2]][2]>> \notin missing } }
    \cup
    { CbContext("WorldScaling", "cuda_mujoco", "nworld_equivalent",
                WorldList[y], WorldList[y], NWorldModelFile(WorldList[y]),
                CUDA_LAUNCH_QUEUE_SCALES[s]) :
        <<y, s>> \in
           { t \in (DOMAIN WorldList) \X (DOMAIN CUDA_LAUNCH_QUEUE_SCALES) :
               /\ {CudaExe, <<CUDA_NWORLD_MODEL_BASE_PATH, "">>}
                     \cap missing = {}
               /\ <<CUDA_NWORLD_MODEL_BASE_PATH,
                    NWorldModelFile(WorldList[t[1]])>> \notin missing } }

CudaLaunches == {n \in DOMAIN hist : hist[n].ctx.Engine = Str("cuda_mujoco")}

\* C24: in cb every launch of cuda_mujoco is a pair of the cross product of
\* scales and scaling values, no pair is launched twice, every pair has been
\* launched when the run has finished, and the CUDA_SCALE_LAUNCH_QUEUES in
\* the environment at the launch is the CudaLaunchQueueScale of its row
C24_ScaleCrossProduct ==
    driver = "cb" =>
        /\ \A n \in CudaLaunches :
              /\ hist[n].ctx \in CudaCrossProduct
              /\ hist[n].env = hist[n].ctx.CudaLaunchQueueScale.str
              /\ n \in DOMAIN results =>
                    results[n].CudaLaunchQueueScale = Str(hist[n].env)
              /\ \A m \in CudaLaunches : m # n => hist[m].ctx # hist[n].ctx
        /\ phase = "done" =>
              \A sc \in CudaCrossProduct :
                  \E n \in CudaLaunches : hist[n].ctx = sc

\* cb has finished: cuda_mujoco was launched under both scales in both
\* sweeps, and one of its launches failed
C24_Witness ==
    /\ driver = "cb" /\ phase = "done"
    /\ \A s \in {"1x", "4x"} : \A cat \in {"ModelScaling", "WorldScaling"} :
          \E n \in CudaLaunches :
              /\ hist[n].env = s
              /\ hist[n].ctx.TestCategory = Str(cat)
    /\ \E n \in CudaLaunches : "error" \in DOMAIN results[n]

\* C25: on every row of results an error kind and metrics exclude each
\* other: a row with an error kind has no metric key, a row with a metric
\* key has no error kind
C25_ErrorXorMetrics ==
    \A n \in DOMAIN results :
        ErrorOf(results[n]) = None \/ DOMAIN results[n] \cap MetricKeys = {}

\* results of main with a row of metrics and the row of a child whose
\* output made float() raise
C25_Witness ==
    /\ driver = "main"
    /\ \E n \in DOMAIN results :
          /\ ErrorOf(results[n]) = None
          /\ DOMAIN results[n] \cap MetricKeys # {}
    /\ \E n \in DOMAIN results :
          /\ hist[n].out.kind = "exit" /\ hist[n].out.rc = 0
          /\ \E x \in DOMAIN hist[n].out.stdout :
                ~FloatOk(hist[n].out.stdout[x].tok)
                /\ hist[n].out.stdout[x].label = "Steps per second"
          /\ ErrorOf(results[n]) # None
          /\ DOMAIN results[n] \cap MetricKeys = {}

\* C26: in the written report of main the cell of column Error holds the
\* error kind of a failure row and "N/A" on a successful row
C26_ErrorColumn ==
    (driver = "main" /\ report.written) =>
        /\ "Error" \in SeqToSet(report.header)
        /\ \A n \in DOMAIN results :
              Cell(n, "Error") = IF ErrorOf(results[n]) = None THEN Str("N/A")
                                 ELSE ErrorOf(results[n])

\* C27: in main all_fieldnames holds every key of every row of results
\* (context, metric, error and diagnostic keys), and every key of every row
\* is a column of the header of the written report, so that no row has a
\* field the writer does not know
C27_FieldnamesCoverRows ==
    driver = "main" =>
        /\ \A n \in DOMAIN results : DOMAIN results[n] \subseteq all_fieldnames
        /\ report.written =>
              \A n \in DOMAIN results :
                  DOMAIN results[n] \subseteq SeqToSet(report.header)

\* the report of main is written with a failure row that carries the raw
\* stdout and a row of metrics, every key of both among the columns
C27_Witness ==
    /\ driver = "main" /\ report.written
    /\ \E n \in DOMAIN results :
          /\ {"error", "stdout"} \subseteq DOMAIN results[n]
          /\ DOMAIN results[n] \subseteq SeqToSet(report.header)
    /\ \E n \in DOMAIN results : "SimulationTime_s" \in DOMAIN results[n]
    /\ {"error", "stdout", "SimulationTime_s"} \subseteq all_fieldnames

\* the profiler columns, and for each the phase name its dialect prints
ProfilerColumns ==
    {ExeProfilerKeys[x][2] : x \in DOMAIN ExeProfilerKeys}
    \cup {WarpProfilerMap[x][2] : x \in DOMAIN WarpProfilerMap}

PhaseTable(parser_type) ==
    IF parser_type = "warp" THEN WarpProfilerMap ELSE ExeProfilerKeys

\* the lines of an output a profiler key may come from: all of them, for
\* warp those after the first marker line and none without a marker
ProfilerLines(parser_type, text) ==
    IF parser_type # "warp" THEN DOMAIN text
    ELSE IF \A x \in DOMAIN text : text[x].label # "Event trace" THEN {}
    ELSE {x \in DOMAIN text :
             \E t \in 1..(x - 1) : text[t].label = "Event trace"}

\* the value of profiler column key in row comes from the first line of
\* lines that is named name, and name is the only name mapped to key
FromPhaseLine(row, key, parser_type, text, lines) ==
    \E p \in DOMAIN PhaseTable(parser_type) :
        /\ PhaseTable(parser_type)[p][2] = key
        /\ \A q \in DOMAIN PhaseTable(parser_type) :
              PhaseTable(parser_type)[q][2] = key => q = p
        /\ \E x \in lines :
              /\ text[x].label = PhaseTable(parser_type)[p][1]
              /\ \A y \in lines :
                    text[y].label = PhaseTable(parser_type)[p][1] => x <= y
              /\ row[key] = Num(Float(text[x].tok)
                                  \div (IF parser_type = "warp" THEN 1000 ELSE 1))

\* C28: a Profiler_<phase>_us value of a row comes only from a line whose
\* name is exactly the spelling of that phase in the dialect of the row (a
\* line "position total" never fills Profiler_position_us, no two names fill
\* the same key), and for warp only from a line after the marker
\* "Event trace:", so that without the marker the row has no profiler key
C28_ProfilerLinesExact ==
    \A n \in DOMAIN results :
        (/\ driver = "main"
         /\ hist[n].out.kind = "exit" /\ hist[n].out.rc = 0) =>
            \A key \in DOMAIN results[n] \cap ProfilerColumns :
                FromPhaseLine(results[n], key, hist[n].parser_type,
                              hist[n].out.stdout,
                              ProfilerLines(hist[n].parser_type,
                                            hist[n].out.stdout))

\* rows from outputs with the lines "position" and "position total", and
\* from a warp output whose marker stands between two phase lines
C28_Witness ==
    /\ driver = "main" /\ Len(results) = 1
    /\ \/ /\ hist[1].parser_type = "exe"
          /\ {"position", "position total"}
                = {hist[1].out.stdout[x].label : x \in 2..3}
          /\ {"Profiler_position_us", "Profiler_position_total_us"}
                \subseteq DOMAIN results[1]
          /\ results[1].Profiler_position_us # results[1].Profiler_position_total_us
       \/ /\ hist[1].parser_type = "warp"
          /\ Len(hist[1].out.stdout) = 4
          /\ hist[1].out.stdout[2].label = "step"
          /\ hist[1].out.stdout[3].label = "Event trace"
          /\ hist[1].out.stdout[4].label = "fwd_position"
          /\ DOMAIN results[1] \cap ProfilerColumns = {"Profiler_position_us"}

\* C30: the parsers are total: an output where a label is followed by a
\* token of the characters of the numeric pattern that is not a number ("."
\* or "1.2.3") gives a record without that key, it does not raise, and the
\* row of the scenario, whose simulation time line can be parsed, is not
\* an error row
C30_ParsersTotal ==
    \A n \in DOMAIN results :
        (/\ hist[n].out.kind = "exit" /\ hist[n].out.rc = 0
         /\ hist[n].out.stdout \in MalformedTexts(ScenarioDialect(
                [driver |-> driver, parser_type |-> hist[n].parser_type]))) =>
            /\ ErrorOf(results[n]) = None
            /\ DOMAIN results[n] \cap {"StepsPerSecond"} = {}
            /\ \E key \in {"SimulationTime_s", "Simulation Time (s)"} :
                  /\ key \in DOMAIN results[n]
                  /\ results[n][key] = Num(Float(hist[n].out.stdout[1].tok))

\* the set of keys observed on the rows
KeysObserved(rows) == UNION {DOMAIN rows[n] : n \in DOMAIN rows}

\* the header as a function of the set of keys alone
HeaderOfKeys(keys) ==
    IF driver = "linux"
    THEN SelectSeq(LinuxCols \o <<"Error">>, LAMBDA c : c \in keys)
    ELSE OrderedFieldsOf(driver)
         \o Sorted((keys \cup (IF driver = "main" THEN MainInitialFieldnames
                               ELSE CbInitialFieldnames))
                   \ SeqToSet(OrderedFieldsOf(driver)))

\* the rows with two of them exchanged
Exchange(rows, a, b) ==
    [n \in DOMAIN rows |->
        IF n = a THEN rows[b] ELSE IF n = b THEN rows[a] ELSE rows[n]]

\* all_fieldnames after the rows were processed one after the other
RECURSIVE FieldnamesAfter(_, _)
FieldnamesAfter(fields, rows) ==
    IF rows = << >> THEN fields
    ELSE FieldnamesAfter(FieldnamesUpdate(fields, Head(rows)), Tail(rows))

\* the header the script computes from rows processed in this order
HeaderOfRows(rows) ==
    IF driver = "linux" THEN LinuxHeader(rows)
    ELSE FinalFieldnames(OrderedFieldsOf(driver),
                         FieldnamesAfter(IF driver = "main"
                                         THEN MainInitialFieldnames
                                         ELSE CbInitialFieldnames, rows))

\* C29: the header of the written report is a function of the set of keys
\* observed on the rows, and the same rows processed in another order
\* (any two neighbours exchanged) give the same header
C29_HeaderFromKeySet ==
    report.written =>
        /\ report.header = HeaderOfKeys(KeysObserved(results))
        /\ report.header = HeaderOfRows(results)
        /\ \A a \in 1..(Len(results) - 1) :
              HeaderOfRows(Exchange(results, a, a + 1)) = report.header

\* a report of linux whose first row is a failure row and a later one is
\* not: the frame meets the key Error before the metric keys
C29_Witness ==
    /\ driver = "linux" /\ report.written
    /\ Len(results) >= 2
    /\ "Error" \in DOMAIN results[1]
    /\ \E n \in DOMAIN results : "Steps" \in DOMAIN results[n]
    /\ report.header[Len(report.header)] = "Error"

=============================================================================
